---- MODULE Spec2Model ----
(***************************************************************************)
(* Model of the competition server (src/unnamed/part_001, lines 1-1471):   *)
(* database readiness lifecycle, request handlers, the SQLite store they   *)
(* call through callbacks, and the health probe with its timer.            *)
(*                                                                         *)
(* JavaScript values are records [t, n, s]: t is the typeof-like tag, n    *)
(* the number, s the string as a sequence of one-character strings.        *)
(***************************************************************************)
EXTENDS Integers, Sequences, FiniteSets, TLC

\* ---------------------------------------------------------------- bounds
MaxRows == 2
MaxQuizRows == 2
MaxInflight == 1
MaxProbes == 2
MaxRestarts == 1
MaxCallers == 2

\* ---------------------------------------------------------------- values
Undefined == [t |-> "undefined", n |-> 0, s |-> <<>>]
Null == [t |-> "null", n |-> 0, s |-> <<>>]
Num(k) == [t |-> "number", n |-> k, s |-> <<>>]
Str(cs) == [t |-> "string", n |-> 0, s |-> cs]

\* JavaScript truthiness, as used by `!field` and `field || ''`.
Falsy(v) ==
    \/ v.t \in {"undefined", "null"}
    \/ v.t = "number" /\ v.n = 0
    \/ v.t = "string" /\ v.s = <<>>

\* A bound parameter that SQLite stores as NULL.
IsNullish(v) == v.t \in {"undefined", "null"}

\* [^\s@] of the email regular expression.
NotSpaceAt(c) == c \notin {" ", "@"}

\* /^[^\s@]+@[^\s@]+\.[^\s@]+$/ on a sequence of characters.
RegexMatch(cs) ==
    \E i \in 1..Len(cs), j \in 1..Len(cs) :
        /\ 1 < i /\ i + 1 < j /\ j < Len(cs)
        /\ cs[i] = "@" /\ cs[j] = "."
        /\ \A k \in 1..Len(cs) : (k # i /\ k # j) => NotSpaceAt(cs[k])

\* The digits of a positive number, for String(number).
DigitChars == <<"0", "1", "2", "3", "4", "5", "6", "7", "8", "9">>

RECURSIVE Digits(_)
Digits(k) ==
    IF k < 10 THEN <<DigitChars[k + 1]>>
    ELSE Digits(k \div 10) \o <<DigitChars[(k % 10) + 1]>>

\* String(v): RegExp.prototype.test converts its argument to a string.
ToStringChars(v) ==
    CASE v.t = "string" -> v.s
      [] v.t = "number" -> Digits(v.n)
      [] v.t = "null" -> <<"n", "u", "l", "l">>
      [] OTHER -> <<"u", "n", "d", "e", "f", "i", "n", "e", "d">>

emailRegexTest(v) == RegexMatch(ToStringChars(v))

\* ------------------------------------------------------------- constants
TestSessionId ==
    Str(<<"T","E","S","T","-","S","E","S","S","I","O","N","-","1","2","3">>)

\* The required list with the accuracy entry forgotten.
requiredCompletionNoAccuracy ==
    <<"sessionId", "name", "email", "completionTime", "timeString",
      "difficulty", "moveCount", "completedAt", "resultsCode">>

requiredCompletion ==
    <<"sessionId", "name", "email", "completionTime", "timeString",
      "difficulty", "moveCount", "accuracy", "completedAt", "resultsCode">>

requiredQuiz ==
    <<"sessionId", "participantName", "participantEmail", "participantMobile",
      "submittedAt">>

\* DEFAULT CURRENT_TIMESTAMP: the store's clock, read as one instant.
CurrentTimestamp == Str(<<"C">>)

\* The sixteen optional answer columns of quiz_answers (simpleFields).
simpleFields ==
    <<"question1_part1", "question1_part2", "question2", "question3_part1",
      "question3_part2", "question4_part1", "question4_part2", "question5_part1",
      "question5_part2", "question6", "recipient1_name", "recipient1_role",
      "recipient2_name", "recipient2_position", "question7", "additional_comments">>

AnswerColumns == {simpleFields[k] : k \in 1..Len(simpleFields)}

\* The record the initialization self-test inserts; completed_at is the
\* clock reading new Date().toISOString(), one instant "D".
TestRow(id) ==
    [id |-> id, session_id |-> TestSessionId,
     name |-> Str(<<"T", "e", "s", "t", " ", "U", "s", "e", "r">>),
     email |-> Str(<<"t", "e", "s", "t", "@", "e", "x", "a", "m", "p", "l", "e", ".", "c", "o", "m">>),
     completion_time |-> Num(60000),
     time_string |-> Str(<<"0", "1", ":", "0", "0", ":", "0", "0">>),
     difficulty |-> Num(8), move_count |-> Num(100), accuracy |-> Num(85),
     completed_at |-> Str(<<"D">>),
     results_code |-> Str(<<"T", "E", "S", "T", "-", "R", "E", "S", "U", "L", "T", "-", "C", "O", "D", "E">>),
     created_at |-> CurrentTimestamp]

\* Errors a store call may report to its callback, and what the constructor
\* may throw.
StoreErrors == {"SQLITE_BUSY", "SQLITE_IOERR"}
ThrowErrors == {"EXCEPTION"}
NoError == "null"

\* ----------------------------------------------------------------- state
VARIABLES
    db,             \* "undefined" or "handle": the module-level `db`
    dbReady,        \* the module-level `dbReady`
    dbError,        \* the module-level `dbError`: NoError or a message
    initPc,         \* the callback initializeDatabase is waiting for
    initLog,        \* the steps of this process's initialization, with their err
    lifetime,       \* number of process starts so far, minus one
    scores,         \* rows of table scores, in rowid order
    scoresSeq,      \* AUTOINCREMENT counter of table scores
    quiz_answers,   \* rows of table quiz_answers, in rowid order
    quizSeq,        \* AUTOINCREMENT counter of table quiz_answers
    inflight,       \* statements handed to the store whose callback has not run
    probes,         \* the health requests: timer, count query, responses sent
    acked,          \* ids of the scores whose submit was answered with success
    callers,        \* the clients that check for a duplicate before they submit
    last            \* the most recent handler or callback step and its response

vars ==
    <<db, dbReady, dbError, initPc, initLog, lifetime, scores, scoresSeq,
      quiz_answers, quizSeq, inflight, probes, acked, callers, last>>

initVars == <<db, dbReady, dbError, initPc, initLog>>
storeVars == <<scores, scoresSeq, quiz_answers, quizSeq>>

NoStmt == [op |-> "none"]
NoResponse == [kind |-> "none", op |-> "none", status |-> 0]
IdleCaller == [pc |-> "idle", email |-> Undefined, name |-> Undefined, slot |-> 0,
               alone |-> TRUE]
IdleProbe == [asked |-> FALSE, timer |-> FALSE, query |-> FALSE, sent |-> 0,
              threw |-> FALSE, database |-> [status |-> "none"]]

Init ==
    /\ db = "undefined"
    /\ dbReady = FALSE
    /\ dbError = NoError
    /\ initPc = "start"
    /\ initLog = <<>>
    /\ lifetime = 0
    /\ scores = <<>>
    /\ scoresSeq = 0
    /\ quiz_answers = <<>>
    /\ quizSeq = 0
    /\ inflight = [i \in 1..MaxInflight |-> NoStmt]
    /\ probes = [i \in 1..MaxProbes |-> IdleProbe]
    /\ acked = {}
    /\ callers = [c \in 1..MaxCallers |-> IdleCaller]
    /\ last = NoResponse

\* ------------------------------------------------- initializeDatabase
\* A failed step that records the error but lets the chain run on to its
\* last callback.
InitFailContinues(step, err) ==
    /\ dbError' = err
    /\ dbReady' = FALSE
    /\ initPc' = "testDelete"
    /\ initLog' = Append(initLog, [step |-> step, err |-> err])

\* One initialization step failed: record the error, resolve(false).
InitFail(step, err) ==
    /\ dbError' = err
    /\ dbReady' = FALSE
    /\ initPc' = "done"
    /\ initLog' = Append(initLog, [step |-> step, err |-> err])

\* new sqlite3.Database(dbPath, callback): returns the handle, or throws into
\* the catch block.
OpenDatabase ==
    /\ initPc = "start"
    /\ \/ /\ db' = "handle"
          /\ initPc' = "open"
          /\ UNCHANGED <<dbReady, dbError, initLog>>
       \/ \E e \in ThrowErrors :
             /\ InitFail("open", e)
             /\ UNCHANGED db
    /\ UNCHANGED <<lifetime, storeVars, inflight, probes, acked, callers, last>>

\* The open callback: on success db.run(createTableSQL, ...).
OpenCallback ==
    /\ initPc = "open"
    /\ \E err \in {NoError} \cup StoreErrors :
          IF err # NoError
          THEN InitFail("open", err)
          ELSE /\ initPc' = "createScores"
               /\ initLog' = Append(initLog, [step |-> "open", err |-> err])
               /\ UNCHANGED <<dbReady, dbError>>
    /\ UNCHANGED <<db, lifetime, storeVars, inflight, probes, acked, callers, last>>

\* Callback of CREATE TABLE IF NOT EXISTS scores: on success
\* db.run(createQuizTableSQL, ...).
CreateScoresCallback ==
    /\ initPc = "createScores"
    /\ \E err \in {NoError} \cup StoreErrors :
          IF err # NoError
          THEN InitFail("createScores", err)
          ELSE /\ initPc' = "createQuiz"
               /\ initLog' = Append(initLog, [step |-> "createScores", err |-> err])
               /\ UNCHANGED <<dbReady, dbError>>
    /\ UNCHANGED <<db, lifetime, storeVars, inflight, probes, acked, callers, last>>

\* Callback of CREATE TABLE IF NOT EXISTS quiz_answers: on success the
\* self-test INSERT is issued.
CreateQuizCallback ==
    /\ initPc = "createQuiz"
    /\ \E err \in {NoError} \cup StoreErrors :
          IF err # NoError
          THEN InitFail("createQuiz", err)
          ELSE /\ initPc' = "testInsert"
               /\ initLog' = Append(initLog, [step |-> "createQuiz", err |-> err])
               /\ UNCHANGED <<dbReady, dbError>>
    /\ UNCHANGED <<db, lifetime, storeVars, inflight, probes, acked, callers, last>>

\* The store runs the self-test INSERT and calls back: on success the
\* DELETE ... WHERE session_id = 'TEST-SESSION-123' is issued.
TestInsertCallback ==
    /\ initPc = "testInsert"
    /\ \E err \in {NoError} \cup StoreErrors :
          IF err # NoError
          THEN /\ InitFail("testInsert", err)
               /\ UNCHANGED <<scores, scoresSeq>>
          ELSE /\ scores' = Append(scores, TestRow(scoresSeq + 1))
               /\ scoresSeq' = scoresSeq + 1
               /\ initPc' = "testDelete"
               /\ initLog' = Append(initLog, [step |-> "testInsert", err |-> err])
               /\ UNCHANGED <<dbReady, dbError>>
    /\ UNCHANGED <<db, lifetime, quiz_answers, quizSeq, inflight, probes, acked, callers, last>>

\* DELETE FROM scores WHERE session_id = ?
DeleteBySession(rows, sid) == SelectSeq(rows, LAMBDA r : r.session_id # sid)

\* The store runs the self-test DELETE and calls back: whatever err is,
\* dbReady = true, dbError = null, resolve(true).
TestDeleteCallback ==
    /\ initPc = "testDelete"
    /\ \E err \in {NoError} \cup StoreErrors :
          /\ scores' = IF err = NoError THEN DeleteBySession(scores, TestSessionId)
                        ELSE scores
          /\ initLog' = Append(initLog, [step |-> "testDelete", err |-> err])
    /\ dbReady' = TRUE
    /\ dbError' = NoError
    /\ initPc' = "done"
    /\ UNCHANGED <<db, lifetime, scoresSeq, quiz_answers, quizSeq, inflight, probes,
                   acked, callers, last>>

\* No statement is in flight and no health request is waiting.
Quiescent ==
    /\ \A i \in DOMAIN inflight : inflight[i].op = "none"
    /\ \A i \in DOMAIN probes : ~probes[i].timer /\ ~probes[i].query

\* gracefulShutdown drains the server and closes the database, then the
\* process is started again on the same database file: the module-level
\* state starts afresh, the tables persist.
Restart ==
    /\ initPc = "done"
    /\ Quiescent
    /\ lifetime < MaxRestarts
    /\ lifetime' = lifetime + 1
    /\ db' = "undefined"
    /\ dbReady' = FALSE
    /\ dbError' = NoError
    /\ initPc' = "start"
    /\ initLog' = <<>>
    /\ probes' = [i \in DOMAIN probes |-> IdleProbe]
    /\ last' = NoResponse
    /\ UNCHANGED <<storeVars, inflight, acked, callers>>

initializeDatabase ==
    \/ OpenDatabase
    \/ OpenCallback
    \/ CreateScoresCallback
    \/ CreateQuizCallback
    \/ TestInsertCallback
    \/ TestDeleteCallback

\* --------------------------------------------------------------- helpers
\* An exception escaped a callback: the uncaughtException handler has called
\* gracefulShutdown, and server.close() accepts no new connection.
ShuttingDown == \E i \in DOMAIN probes : probes[i].threw

\* app.listen runs after initializeDatabase() has been called: a request is
\* served only once the constructor call is behind.
Serving == initPc # "start" /\ ~ShuttingDown

\* The availability check passing whenever no error is recorded.
StoreAvailableUnlessFailed == db # "undefined" /\ dbError = NoError

\* The availability check with the dbReady test left out.
StoreAvailableDbOnly == db # "undefined"

\* The negation of `!db || !dbReady`.
StoreAvailable == db # "undefined" /\ dbReady

FreeSlots == {i \in DOMAIN inflight : inflight[i].op = "none"}

\* db.run / db.get / db.all: the statement is handed to the store.
Issue(stmt) ==
    /\ FreeSlots # {}
    /\ LET i == CHOOSE k \in FreeSlots : \A j \in FreeSlots : k <= j
       IN  inflight' = [inflight EXCEPT ![i] = stmt]

Respond(kind, op, status, body) ==
    last' = [kind |-> kind, op |-> op, status |-> status, body |-> body]

\* A response, recorded with req.body of the request it answers.
RespondTo(req, kind, op, status, body) ==
    last' = [kind |-> kind, op |-> op, status |-> status, body |-> body,
             req |-> req]

\* The statement was issued; the response waits for the callback.
Issued(op, stmt) == Respond("handler", op, 0, stmt)

\* res.status(503).json({error: 'Database not available', ready, dbError})
StoreUnavailable(op) ==
    /\ Respond("handler", op, 503,
               [error |-> "Database not available", ready |-> dbReady,
                dbError |-> dbError])
    /\ UNCHANGED inflight

\* The callback's err: what the store reports, or the constraint failure of
\* the statement itself.
CallbackErrors(constraintFails) ==
    IF constraintFails THEN StoreErrors \cup {"SQLITE_CONSTRAINT"}
    ELSE StoreErrors \cup {NoError}

Min(a, b) == IF a < b THEN a ELSE b

Take(rows, k) == SubSeq(rows, 1, Min(k, Len(rows)))

DigitValue(c) == CHOOSE d \in 0..9 : DigitChars[d + 1] = c

\* The integer a query-string parameter denotes when SQLite binds it to
\* LIMIT ? or compares it with an INTEGER column.
RECURSIVE ToInt(_)
ToInt(cs) ==
    IF cs = <<>> THEN 0
    ELSE 10 * ToInt(SubSeq(cs, 1, Len(cs) - 1)) + DigitValue(cs[Len(cs)])

\* The orders ORDER BY key ASC may return the rows in: rows with equal keys
\* come in an order SQL leaves open.
Orderings(rows, NotAfter(_, _)) ==
    {o \in [1..Len(rows) -> 1..Len(rows)] :
        /\ \A a, b \in 1..Len(rows) : a # b => o[a] # o[b]
        /\ \A a, b \in 1..Len(rows) : a < b => NotAfter(rows[o[a]], rows[o[b]])}

\* The characters of the model in ASCII order, for SQLite's BINARY collation.
UpperChars ==
    <<"A", "B", "C", "D", "E", "F", "G", "H", "I", "J", "K", "L", "M", "N",
      "O", "P", "Q", "R", "S", "T", "U", "V", "W", "X", "Y", "Z">>

LowerChars ==
    <<"a", "b", "c", "d", "e", "f", "g", "h", "i", "j", "k", "l", "m", "n",
      "o", "p", "q", "r", "s", "t", "u", "v", "w", "x", "y", "z">>

Ascii ==
    <<" ", "\"", ",", "-", ".", "0", "1", "2", "3", "4", "5", "6", "7", "8", "9",
      "@">> \o UpperChars \o LowerChars

CharCode(c) == CHOOSE k \in 1..Len(Ascii) : Ascii[k] = c

\* a <= b as SQLite compares TEXT values.
RECURSIVE TextLeq(_, _)
TextLeq(a, b) ==
    IF a = <<>> THEN TRUE
    ELSE IF b = <<>> THEN FALSE
    ELSE IF a[1] # b[1] THEN CharCode(a[1]) < CharCode(b[1])
    ELSE TextLeq(Tail(a), Tail(b))

Reorder(rows, o) == [k \in 1..Len(rows) |-> rows[o[k]]]

\* --------------------------------------------------------- Access Guard
ADMIN_TOKEN == <<"k">>
BearerPrefix == <<"B", "e", "a", "r", "e", "r", " ">>

StartsWith(cs, prefix) ==
    Len(cs) >= Len(prefix) /\ SubSeq(cs, 1, Len(prefix)) = prefix

\* The token search with the X-Admin-Token header tried before the
\* Authorization header.
providedTokenHeaderFirst(cred) ==
    LET token == IF ~Falsy(cred.xAdminToken) THEN cred.xAdminToken ELSE cred.token
    IN  IF ~Falsy(token) THEN token
        ELSE IF ~Falsy(cred.authorization)
                /\ StartsWith(cred.authorization.s, BearerPrefix)
        THEN Str(SubSeq(cred.authorization.s, Len(BearerPrefix) + 1,
                        Len(cred.authorization.s)))
        ELSE Null

\* providedToken of authenticateAdmin, Null when none was found.
providedToken(cred) ==
    LET token == IF ~Falsy(cred.xAdminToken) THEN cred.xAdminToken ELSE cred.token
    IN  IF ~Falsy(cred.authorization) /\ StartsWith(cred.authorization.s, BearerPrefix)
        THEN Str(SubSeq(cred.authorization.s, Len(BearerPrefix) + 1,
                        Len(cred.authorization.s)))
        ELSE IF ~Falsy(token) THEN token
        ELSE Null

\* The middleware accepting whatever token is provided.
authenticateAdminAnyToken(cred) ==
    IF Falsy(providedToken(cred)) THEN "Authentication required"
    ELSE "next"

\* "next", or the rejection authenticateAdmin answers with.
authenticateAdmin(cred) ==
    IF Falsy(providedToken(cred)) THEN "Authentication required"
    ELSE IF providedToken(cred).s # ADMIN_TOKEN THEN "Invalid authentication"
    ELSE "next"

\* A protected route: the handler runs only when the middleware calls next().
Protected(op, cred, Handler) ==
    IF authenticateAdmin(cred) = "next" THEN Handler
    ELSE /\ Serving
         /\ Respond("guard", op, 401,
                    [error |-> authenticateAdmin(cred),
                     hint |-> authenticateAdmin(cred) = "Authentication required"])
         /\ UNCHANGED <<initVars, lifetime, storeVars, inflight, probes, acked, callers>>

\* ------------------------------------------------------ POST /api/scores
\* The required-field test with `!accuracy` in place of
\* `accuracy === undefined`.
MissingCompletionFalsyAccuracy(p) ==
    \/ Falsy(p.sessionId) \/ Falsy(p.name) \/ Falsy(p.email)
    \/ Falsy(p.completionTime) \/ Falsy(p.timeString) \/ Falsy(p.difficulty)
    \/ Falsy(p.moveCount) \/ Falsy(p.accuracy)
    \/ Falsy(p.completedAt) \/ Falsy(p.resultsCode)

MissingCompletion(p) ==
    \/ Falsy(p.sessionId) \/ Falsy(p.name) \/ Falsy(p.email)
    \/ Falsy(p.completionTime) \/ Falsy(p.timeString) \/ Falsy(p.difficulty)
    \/ Falsy(p.moveCount) \/ p.accuracy.t = "undefined"
    \/ Falsy(p.completedAt) \/ Falsy(p.resultsCode)

\* The row INSERT INTO scores stores for the bound parameters.
ScoreRow(id, p) ==
    [id |-> id, session_id |-> p.sessionId, name |-> p.name, email |-> p.email,
     completion_time |-> p.completionTime, time_string |-> p.timeString,
     difficulty |-> p.difficulty, move_count |-> p.moveCount,
     accuracy |-> p.accuracy, completed_at |-> p.completedAt,
     results_code |-> p.resultsCode, created_at |-> CurrentTimestamp]

\* The scores table with its NOT NULL constraints left out.
ScoreConstraintNever(p) == FALSE

\* The scores table with a UNIQUE constraint on email.
ScoreConstraintUniqueEmail(p) ==
    \/ \E f \in DOMAIN p : IsNullish(p[f])
    \/ \E k \in 1..Len(scores) : scores[k].email = p.email

\* A NOT NULL column of scores would receive NULL.
ScoreConstraintFails(p) ==
    \E f \in DOMAIN p : IsNullish(p[f])

\* Statements in flight that will add a row to scores.
PendingScoreInserts ==
    Cardinality({i \in DOMAIN inflight : inflight[i].op = "submitCompletion"})

SubmitCompletion(p) ==
    /\ Serving
    /\ IF ~StoreAvailable THEN StoreUnavailable("submitCompletion")
       ELSE IF MissingCompletion(p)
       THEN /\ RespondTo(p, "handler", "submitCompletion", 400,
                          [error |-> "Missing required fields",
                           required |-> requiredCompletion, received |-> p])
            /\ UNCHANGED inflight
       ELSE IF ~emailRegexTest(p.email)
       THEN /\ RespondTo(p, "handler", "submitCompletion", 400,
                          [error |-> "Invalid email format"])
            /\ UNCHANGED inflight
       ELSE /\ Len(scores) + PendingScoreInserts < MaxRows
            /\ Issue([op |-> "submitCompletion", args |-> p])
            /\ Issued("submitCompletion", [op |-> "submitCompletion", args |-> p])
    /\ UNCHANGED <<initVars, lifetime, storeVars, probes, acked, callers>>

\* The store runs the INSERT and calls back.
SubmitCompletionCallback(i) ==
    /\ inflight[i].op = "submitCompletion"
    /\ LET p == inflight[i].args
       IN  \E err \in CallbackErrors(ScoreConstraintFails(p)) :
             IF err # NoError
             THEN /\ Respond("callback", "submitCompletion", 500,
                             [error |-> "Failed to save score", details |-> err])
                  /\ UNCHANGED <<scores, scoresSeq, acked>>
             ELSE /\ scores' = Append(scores, ScoreRow(scoresSeq + 1, p))
                  /\ scoresSeq' = scoresSeq + 1
                  /\ acked' = acked \cup {scoresSeq + 1}
                  /\ Respond("callback", "submitCompletion", 200,
                             [id |-> scoresSeq + 1, sessionId |-> p.sessionId])
    /\ inflight' = [inflight EXCEPT ![i] = NoStmt]
    /\ UNCHANGED <<initVars, lifetime, quiz_answers, quizSeq, probes, callers>>

\* ------------------------------------------------ POST /api/quiz-answers
\* A quiz payload: the identity fields, submittedAt, and `answers`, the
\* sixteen optional fields keyed by the column each is bound to.
\* The required-field test with the participantMobile check forgotten.
MissingQuizNoMobile(p) ==
    \/ Falsy(p.sessionId) \/ Falsy(p.participantName) \/ Falsy(p.participantEmail)
    \/ Falsy(p.submittedAt)

MissingQuiz(p) ==
    \/ Falsy(p.sessionId) \/ Falsy(p.participantName) \/ Falsy(p.participantEmail)
    \/ Falsy(p.participantMobile) \/ Falsy(p.submittedAt)

\* A parameter as SQLite stores it: undefined is bound as NULL.
Bound(v) == IF IsNullish(v) THEN Null ELSE v

\* The row INSERT INTO quiz_answers stores for the bound parameters.
QuizRow(id, p) ==
    [id |-> id, session_id |-> p.sessionId, participant_name |-> p.participantName,
     participant_email |-> p.participantEmail,
     participant_mobile |-> p.participantMobile,
     answers |-> [f \in AnswerColumns |-> Bound(p.answers[f])],
     submitted_at |-> p.submittedAt, created_at |-> CurrentTimestamp]

PendingQuizInserts ==
    Cardinality({i \in DOMAIN inflight : inflight[i].op = "submitQuizAnswers"})

SubmitQuizAnswers(p) ==
    /\ Serving
    /\ IF ~StoreAvailable THEN StoreUnavailable("submitQuizAnswers")
       ELSE IF MissingQuiz(p)
       THEN /\ RespondTo(p, "handler", "submitQuizAnswers", 400,
                          [error |-> "Missing required fields",
                           required |-> requiredQuiz, received |-> p])
            /\ UNCHANGED inflight
       ELSE IF ~emailRegexTest(p.participantEmail)
       THEN /\ RespondTo(p, "handler", "submitQuizAnswers", 400,
                          [error |-> "Invalid email format"])
            /\ UNCHANGED inflight
       ELSE /\ Len(quiz_answers) + PendingQuizInserts < MaxQuizRows
            /\ Issue([op |-> "submitQuizAnswers", args |-> p])
            /\ Issued("submitQuizAnswers", [op |-> "submitQuizAnswers", args |-> p])
    /\ UNCHANGED <<initVars, lifetime, storeVars, probes, acked>>

\* The store runs the INSERT and calls back.
SubmitQuizAnswersCallback(i) ==
    /\ inflight[i].op = "submitQuizAnswers"
    /\ LET p == inflight[i].args
       IN  \E err \in CallbackErrors(FALSE) :
             IF err # NoError
             THEN /\ Respond("callback", "submitQuizAnswers", 500,
                             [error |-> "Failed to save quiz answers", details |-> err])
                  /\ UNCHANGED <<quiz_answers, quizSeq>>
             ELSE /\ quiz_answers' = Append(quiz_answers, QuizRow(quizSeq + 1, p))
                  /\ quizSeq' = quizSeq + 1
                  /\ Respond("callback", "submitQuizAnswers", 200,
                             [id |-> quizSeq + 1, sessionId |-> p.sessionId])
    /\ inflight' = [inflight EXCEPT ![i] = NoStmt]
    /\ UNCHANGED <<initVars, lifetime, scores, scoresSeq, probes, acked>>

\* -------------------------------- POST /api/quiz-answers/check-duplicate
\* The count with AND in place of OR.
DuplicateQuizCountBoth(rows, email, name) ==
    Len(SelectSeq(rows, LAMBDA r : r.participant_email = email
                                   /\ r.participant_name = name))

\* The count over the email column alone.
DuplicateQuizCountEmailOnly(rows, email, name) ==
    Len(SelectSeq(rows, LAMBDA r : r.participant_email = email))

\* SELECT COUNT(*) FROM quiz_answers
\* WHERE participant_email = ? OR participant_name = ?
DuplicateQuizCount(rows, email, name) ==
    Len(SelectSeq(rows, LAMBDA r : r.participant_email = email
                                   \/ r.participant_name = name))

CheckDuplicateQuiz(email, name) ==
    /\ Serving
    /\ IF ~StoreAvailable THEN StoreUnavailable("checkDuplicateQuiz")
       ELSE IF Falsy(email) \/ Falsy(name)
       THEN /\ Respond("handler", "checkDuplicateQuiz", 400,
                       [error |-> "Missing required fields",
                        required |-> <<"participantEmail", "participantName">>,
                        received |-> [participantEmail |-> email,
                                      participantName |-> name]])
            /\ UNCHANGED inflight
       ELSE LET stmt == [op |-> "checkDuplicateQuiz",
                         args |-> [email |-> email, name |-> name]]
            IN  Issue(stmt) /\ Issued("checkDuplicateQuiz", stmt)
    /\ UNCHANGED <<initVars, lifetime, storeVars, probes, acked>>

CheckDuplicateQuizCallback(i) ==
    /\ inflight[i].op = "checkDuplicateQuiz"
    /\ \E err \in CallbackErrors(FALSE) :
          IF err # NoError
          THEN Respond("callback", "checkDuplicateQuiz", 500,
                       [error |-> "Failed to check for duplicates", details |-> err])
          ELSE LET count == DuplicateQuizCount(quiz_answers, inflight[i].args.email,
                                               inflight[i].args.name)
               IN  Respond("callback", "checkDuplicateQuiz", 200,
                           [isDuplicate |-> count > 0, existingCount |-> count,
                            message |-> IF count > 0
                                        THEN "Entry already exists for this email or name"
                                        ELSE "No duplicate found",
                            args |-> inflight[i].args])
    /\ inflight' = [inflight EXCEPT ![i] = NoStmt]
    /\ UNCHANGED <<initVars, lifetime, storeVars, probes, acked>>

\* ------------------------------------- POST /api/check-duplicate-email
CheckDuplicateEmail(email) ==
    /\ Serving
    /\ IF ~StoreAvailable THEN StoreUnavailable("checkDuplicateEmail")
       ELSE IF Falsy(email)
       THEN /\ Respond("handler", "checkDuplicateEmail", 400,
                       [error |-> "Missing required field", required |-> <<"email">>,
                        received |-> [email |-> email]])
            /\ UNCHANGED inflight
       ELSE LET stmt == [op |-> "checkDuplicateEmail", args |-> [email |-> email]]
            IN  Issue(stmt) /\ Issued("checkDuplicateEmail", stmt)
    /\ UNCHANGED <<initVars, lifetime, storeVars, probes, acked, callers>>

CheckDuplicateEmailCallback(i) ==
    /\ inflight[i].op = "checkDuplicateEmail"
    /\ \E err \in CallbackErrors(FALSE) :
          IF err # NoError
          THEN Respond("callback", "checkDuplicateEmail", 500,
                       [error |-> "Failed to check for duplicate email",
                        details |-> err])
          ELSE LET email == inflight[i].args.email
                   scores_count == Len(SelectSeq(scores, LAMBDA r : r.email = email))
                   quiz_count ==
                       Len(SelectSeq(quiz_answers,
                                     LAMBDA r : r.participant_email = email))
               IN  Respond("callback", "checkDuplicateEmail", 200,
                           [isDuplicate |-> scores_count + quiz_count > 0,
                            scoresCount |-> scores_count, quizCount |-> quiz_count,
                            totalCount |-> scores_count + quiz_count,
                            message |-> IF scores_count + quiz_count > 0
                                        THEN "Email already exists in the system"
                                        ELSE "No duplicate email found",
                            args |-> inflight[i].args])
    /\ inflight' = [inflight EXCEPT ![i] = NoStmt]
    /\ UNCHANGED <<initVars, lifetime, storeVars, probes, acked, callers>>

\* -------------------------------------------------- GET /api/leaderboard
DefaultLimit == 10

\* req.query.limit || 10
LimitOf(limit) == IF Falsy(limit) THEN DefaultLimit ELSE ToInt(limit.s)

\* WHERE difficulty = ? when the parameter is given.
MatchesDifficulty(row, difficulty) ==
    Falsy(difficulty) \/ row.difficulty.n = ToInt(difficulty.s)

\* ORDER BY completion_time ASC
ByCompletionTime(r1, r2) == r1.completion_time.n <= r2.completion_time.n

\* The columns the leaderboard SELECT names.
LeaderboardColumns(row) ==
    [id |-> row.id, session_id |-> row.session_id, name |-> row.name,
     email |-> row.email, completion_time |-> row.completion_time,
     time_string |-> row.time_string, difficulty |-> row.difficulty,
     move_count |-> row.move_count, accuracy |-> row.accuracy,
     completed_at |-> row.completed_at]

\* The results SELECT ... FROM scores [WHERE difficulty = ?]
\* ORDER BY completion_time ASC LIMIT ? may return.
LeaderboardResults(rows, limit, difficulty) ==
    LET selected == SelectSeq(rows, LAMBDA r : MatchesDifficulty(r, difficulty))
    IN  {Take([k \in 1..Len(selected) |-> LeaderboardColumns(Reorder(selected, o)[k])],
              LimitOf(limit)) : o \in Orderings(selected, ByCompletionTime)}

GetLeaderboardHandler(limit, difficulty) ==
    /\ Serving
    /\ IF ~StoreAvailable THEN StoreUnavailable("getLeaderboard")
       ELSE LET stmt == [op |-> "getLeaderboard",
                         args |-> [limit |-> limit, difficulty |-> difficulty]]
            IN  Issue(stmt) /\ Issued("getLeaderboard", stmt)
    /\ UNCHANGED <<initVars, lifetime, storeVars, probes, acked, callers>>

GetLeaderboardCallback(i) ==
    /\ inflight[i].op = "getLeaderboard"
    /\ \E err \in CallbackErrors(FALSE) :
          IF err # NoError
          THEN Respond("callback", "getLeaderboard", 500,
                       [error |-> "Failed to fetch leaderboard"])
          ELSE \E rows \in LeaderboardResults(scores, inflight[i].args.limit,
                                              inflight[i].args.difficulty) :
                 Respond("callback", "getLeaderboard", 200,
                         [rows |-> rows, args |-> inflight[i].args])
    /\ inflight' = [inflight EXCEPT ![i] = NoStmt]
    /\ UNCHANGED <<initVars, lifetime, storeVars, probes, acked, callers>>

\* ----------------------------------------------- GET /api/scores/export
\* ORDER BY completed_at DESC
ByCompletedAtDesc(r1, r2) == TextLeq(r2.completed_at.s, r1.completed_at.s)

ExportCompletionsHandler ==
    /\ Serving
    /\ IF ~StoreAvailable THEN StoreUnavailable("exportCompletions")
       ELSE Issue([op |-> "exportCompletions"])
            /\ Issued("exportCompletions", [op |-> "exportCompletions"])
    /\ UNCHANGED <<initVars, lifetime, storeVars, probes, acked, callers>>

ExportCompletionsCallback(i) ==
    /\ inflight[i].op = "exportCompletions"
    /\ \E err \in CallbackErrors(FALSE) :
          IF err # NoError
          THEN Respond("callback", "exportCompletions", 500,
                       [error |-> "Failed to export scores"])
          ELSE \E o \in Orderings(scores, ByCompletedAtDesc) :
                 Respond("callback", "exportCompletions", 200,
                         [total |-> Len(scores), scores |-> Reorder(scores, o)])
    /\ inflight' = [inflight EXCEPT ![i] = NoStmt]
    /\ UNCHANGED <<initVars, lifetime, storeVars, probes, acked, callers>>

\* ------------------------------------------------------ formatQuizAnswers
formatQuizAnswers(rawAnswers) ==
    [participant_info |->
        [name |-> rawAnswers.participant_name, email |-> rawAnswers.participant_email,
         mobile |-> rawAnswers.participant_mobile,
         submitted_at |-> rawAnswers.submitted_at],
     quiz_responses |->
        [f \in {g \in AnswerColumns : ~IsNullish(rawAnswers.answers[g])} |->
            rawAnswers.answers[f]]]

\* formatQuizAnswers(row) with id, session_id and created_at added.
FormattedQuizRow(row) ==
    [participant_info |-> formatQuizAnswers(row).participant_info,
     quiz_responses |-> formatQuizAnswers(row).quiz_responses,
     id |-> row.id, session_id |-> row.session_id, created_at |-> row.created_at]

\* ORDER BY submitted_at DESC
BySubmittedAtDesc(r1, r2) == TextLeq(r2.submitted_at.s, r1.submitted_at.s)

\* ------------------------------------------ GET /api/quiz-answers/export
ExportQuizAnswersHandler(format) ==
    /\ Serving
    /\ IF ~StoreAvailable THEN StoreUnavailable("exportQuizAnswers")
       ELSE LET stmt == [op |-> "exportQuizAnswers", args |-> [format |-> format]]
            IN  Issue(stmt) /\ Issued("exportQuizAnswers", stmt)
    /\ UNCHANGED <<initVars, lifetime, storeVars, probes, acked, callers>>

ExportQuizAnswersCallback(i) ==
    /\ inflight[i].op = "exportQuizAnswers"
    /\ \E err \in CallbackErrors(FALSE) :
          IF err # NoError
          THEN Respond("callback", "exportQuizAnswers", 500,
                       [error |-> "Failed to export quiz answers"])
          ELSE \E o \in Orderings(quiz_answers, BySubmittedAtDesc) :
                 LET rows == Reorder(quiz_answers, o)
                 IN  IF inflight[i].args.format = "raw"
                     THEN Respond("callback", "exportQuizAnswers", 200,
                                  [total |-> Len(rows), format |-> "raw",
                                   quiz_answers |-> rows])
                     ELSE Respond("callback", "exportQuizAnswers", 200,
                                  [total |-> Len(rows), format |-> "formatted",
                                   quiz_answers |->
                                      [k \in 1..Len(rows) |-> FormattedQuizRow(rows[k])]])
    /\ inflight' = [inflight EXCEPT ![i] = NoStmt]
    /\ UNCHANGED <<initVars, lifetime, storeVars, probes, acked, callers>>

\* ------------------------------------------------------------- LEFT JOIN
\* The quiz columns of a joined row that found no quiz_answers row.
NullQuiz ==
    [id |-> Null, session_id |-> Null, participant_name |-> Null,
     participant_email |-> Null, participant_mobile |-> Null,
     answers |-> [f \in AnswerColumns |-> Null], submitted_at |-> Null,
     created_at |-> Null]

\* The quiz_answers row as the join carries it (its id as a value).
QuizOf(q) == [q EXCEPT !.id = Num(q.id)]

\* The join written as an inner join: a scores row without a match yields
\* no row.
JoinOneInner(s, quizRows) ==
    LET matches == SelectSeq(quizRows, LAMBDA q : q.session_id = s.session_id)
    IN  [k \in 1..Len(matches) |-> [s |-> s, qa |-> QuizOf(matches[k])]]

\* The rows of scores s LEFT JOIN quiz_answers qa ON s.session_id = qa.session_id
\* for one scores row: one per matching quiz_answers row, or one without.
JoinOne(s, quizRows) ==
    LET matches == SelectSeq(quizRows, LAMBDA q : q.session_id = s.session_id)
    IN  IF matches = <<>> THEN <<[s |-> s, qa |-> NullQuiz]>>
        ELSE [k \in 1..Len(matches) |-> [s |-> s, qa |-> QuizOf(matches[k])]]

RECURSIVE LeftJoin(_, _)
LeftJoin(scoreRows, quizRows) ==
    IF scoreRows = <<>> THEN <<>>
    ELSE JoinOne(Head(scoreRows), quizRows) \o LeftJoin(Tail(scoreRows), quizRows)

\* ---------------------------------------- GET /api/leaderboard-with-quiz
\* The columns the combined leaderboard SELECT names.
JoinedColumns(j) ==
    [id |-> j.s.id, session_id |-> j.s.session_id, name |-> j.s.name,
     email |-> j.s.email, completion_time |-> j.s.completion_time,
     time_string |-> j.s.time_string, difficulty |-> j.s.difficulty,
     move_count |-> j.s.move_count, accuracy |-> j.s.accuracy,
     completed_at |-> j.s.completed_at,
     quiz_name |-> j.qa.participant_name, quiz_email |-> j.qa.participant_email,
     participant_mobile |-> j.qa.participant_mobile,
     quiz_submitted_at |-> j.qa.submitted_at, answers |-> j.qa.answers]

JoinedByCompletionTime(j1, j2) == ByCompletionTime(j1.s, j2.s)

JoinedLeaderboardResults(scoreRows, quizRows, limit, difficulty) ==
    LET selected == LeftJoin(SelectSeq(scoreRows,
                                       LAMBDA r : MatchesDifficulty(r, difficulty)),
                             quizRows)
    IN  {Take([k \in 1..Len(selected) |-> JoinedColumns(Reorder(selected, o)[k])],
              LimitOf(limit)) : o \in Orderings(selected, JoinedByCompletionTime)}

\* One row of the formatted combined leaderboard.
FormattedJoinedRow(row) ==
    [puzzle_game |->
        [id |-> row.id, session_id |-> row.session_id, name |-> row.name,
         email |-> row.email, completion_time |-> row.completion_time,
         time_string |-> row.time_string, difficulty |-> row.difficulty,
         move_count |-> row.move_count, accuracy |-> row.accuracy,
         completed_at |-> row.completed_at],
     quiz_answers |->
        IF ~Falsy(row.quiz_name)
        THEN formatQuizAnswers([participant_name |-> row.quiz_name,
                                participant_email |-> row.quiz_email,
                                participant_mobile |-> row.participant_mobile,
                                submitted_at |-> row.quiz_submitted_at,
                                answers |-> row.answers])
        ELSE Null]

GetJoinedLeaderboardHandler(limit, difficulty, format) ==
    /\ Serving
    /\ IF ~StoreAvailable THEN StoreUnavailable("getJoinedLeaderboard")
       ELSE LET stmt == [op |-> "getJoinedLeaderboard",
                         args |-> [limit |-> limit, difficulty |-> difficulty,
                                   format |-> format]]
            IN  Issue(stmt) /\ Issued("getJoinedLeaderboard", stmt)
    /\ UNCHANGED <<initVars, lifetime, storeVars, probes, acked, callers>>

GetJoinedLeaderboardCallback(i) ==
    /\ inflight[i].op = "getJoinedLeaderboard"
    /\ \E err \in CallbackErrors(FALSE) :
          IF err # NoError
          THEN Respond("callback", "getJoinedLeaderboard", 500,
                       [error |-> "Failed to fetch combined leaderboard"])
          ELSE \E rows \in JoinedLeaderboardResults(scores, quiz_answers,
                                                    inflight[i].args.limit,
                                                    inflight[i].args.difficulty) :
                 IF inflight[i].args.format = "raw"
                 THEN Respond("callback", "getJoinedLeaderboard", 200,
                              [rows |-> rows, args |-> inflight[i].args])
                 ELSE Respond("callback", "getJoinedLeaderboard", 200,
                              [rows |-> [k \in 1..Len(rows) |-> FormattedJoinedRow(rows[k])],
                               args |-> inflight[i].args])
    /\ inflight' = [inflight EXCEPT ![i] = NoStmt]
    /\ UNCHANGED <<initVars, lifetime, storeVars, probes, acked, callers>>

\* --------------------------------------- GET /api/quiz-answers/formatted
DefaultPageLimit == 50

\* c folded to lower case, as LIKE compares ASCII letters.
Fold(c) ==
    IF \E k \in 1..Len(UpperChars) : UpperChars[k] = c
    THEN LowerChars[CHOOSE k \in 1..Len(UpperChars) : UpperChars[k] = c]
    ELSE c

\* text LIKE '%search%' for a search without wildcard characters.
Like(text, search) ==
    \E k \in 1..(Len(text) - Len(search) + 1) :
        \A m \in 1..Len(search) : Fold(text[k + m - 1]) = Fold(search[m])

\* WHERE participant_name LIKE ? OR participant_email LIKE ?, when a search
\* term is given.
MatchesSearch(row, search) ==
    \/ Falsy(search)
    \/ Like(row.participant_name.s, search.s)
    \/ Like(row.participant_email.s, search.s)

\* req.query.limit || 50 and req.query.offset || 0, as LIMIT ? OFFSET ? and
\* parseInt read them.
PageLimitOf(limit) == IF Falsy(limit) THEN DefaultPageLimit ELSE ToInt(limit.s)
OffsetOf(offset) == IF Falsy(offset) THEN 0 ELSE ToInt(offset.s)

Skip(rows, k) == SubSeq(rows, Min(k, Len(rows)) + 1, Len(rows))

\* The pages SELECT * FROM quiz_answers [WHERE ...] ORDER BY submitted_at DESC
\* LIMIT ? OFFSET ? may return.
QuizPageResults(rows, args) ==
    LET selected == SelectSeq(rows, LAMBDA r : MatchesSearch(r, args.search))
    IN  {Take(Skip(Reorder(selected, o), OffsetOf(args.offset)), PageLimitOf(args.limit)) :
            o \in Orderings(selected, BySubmittedAtDesc)}

QuizFormattedHandler(limit, offset, search) ==
    /\ Serving
    /\ IF ~StoreAvailable THEN StoreUnavailable("getQuizFormatted")
       ELSE LET stmt == [op |-> "getQuizFormatted",
                         args |-> [limit |-> limit, offset |-> offset,
                                   search |-> search]]
            IN  Issue(stmt) /\ Issued("getQuizFormatted", stmt)
    /\ UNCHANGED <<initVars, lifetime, storeVars, probes, acked, callers>>

\* The page query's callback: the rows are formatted and the count query is
\* issued.
QuizFormattedPageCallback(i) ==
    /\ inflight[i].op = "getQuizFormatted"
    /\ \E err \in CallbackErrors(FALSE) :
          IF err # NoError
          THEN /\ Respond("callback", "getQuizFormatted", 500,
                          [error |-> "Failed to fetch formatted quiz answers"])
               /\ inflight' = [inflight EXCEPT ![i] = NoStmt]
          ELSE \E rows \in QuizPageResults(quiz_answers, inflight[i].args) :
                 LET stmt == [op |-> "getQuizFormattedCount",
                              args |-> inflight[i].args,
                              formattedAnswers |->
                                 [k \in 1..Len(rows) |-> FormattedQuizRow(rows[k])]]
                 IN  /\ inflight' = [inflight EXCEPT ![i] = stmt]
                     /\ Issued("getQuizFormatted", stmt)
    /\ UNCHANGED <<initVars, lifetime, storeVars, probes, acked, callers>>

\* The count query's callback: the page is answered, with the pagination
\* totals when the count succeeded.
QuizFormattedCountCallback(i) ==
    /\ inflight[i].op = "getQuizFormattedCount"
    /\ LET args == inflight[i].args
           formattedAnswers == inflight[i].formattedAnswers
           total == Len(SelectSeq(quiz_answers,
                                  LAMBDA r : MatchesSearch(r, args.search)))
       IN  \E countErr \in CallbackErrors(FALSE) :
             IF countErr # NoError
             THEN Respond("callback", "getQuizFormatted", 200,
                          [quiz_answers |-> formattedAnswers,
                           pagination |-> [limit |-> PageLimitOf(args.limit),
                                           offset |-> OffsetOf(args.offset),
                                           returned |-> Len(formattedAnswers)]])
             ELSE Respond("callback", "getQuizFormatted", 200,
                          [quiz_answers |-> formattedAnswers,
                           pagination |->
                              [limit |-> PageLimitOf(args.limit),
                               offset |-> OffsetOf(args.offset),
                               total |-> total,
                               returned |-> Len(formattedAnswers),
                               has_more |-> OffsetOf(args.offset)
                                            + Len(formattedAnswers) < total]])
    /\ inflight' = [inflight EXCEPT ![i] = NoStmt]
    /\ UNCHANGED <<initVars, lifetime, storeVars, probes, acked, callers>>

\* ------------------------------------------------------------ CSV cells
\* `${v || ''}`
OrEmpty(v) == IF Falsy(v) THEN <<>> ELSE ToStringChars(v)

\* text.replace(/"/g, '""')
RECURSIVE EscapeQuotes(_)
EscapeQuotes(cs) ==
    IF cs = <<>> THEN <<>>
    ELSE (IF Head(cs) = "\"" THEN <<"\"", "\"">> ELSE <<Head(cs)>>)
         \o EscapeQuotes(Tail(cs))

\* `"${v || ''}"`
Quoted(v) == <<"\"">> \o OrEmpty(v) \o <<"\"">>

\* `"${(v || '').replace(/"/g, '""')}"`
QuotedEscaped(v) == <<"\"">> \o EscapeQuotes(OrEmpty(v)) \o <<"\"">>

\* An array element as Array.prototype.join writes it.
Joined(v) == IF IsNullish(v) THEN <<>> ELSE ToStringChars(v)

\* --------------------------------------------- GET /api/quiz-answers/csv
quizHeaders ==
    <<"ID", "Session ID", "Participant Name", "Participant Email",
      "Participant Mobile", "Question 1 Part 1", "Question 1 Part 2", "Question 2",
      "Question 3 Part 1", "Question 3 Part 2", "Question 4 Part 1",
      "Question 4 Part 2", "Question 5 Part 1", "Question 5 Part 2", "Question 6",
      "Recipient 1 Name", "Recipient 1 Role", "Recipient 2 Name",
      "Recipient 2 Position", "Question 7", "Additional Comments", "Submitted At",
      "Created At">>

\* csvRow of the quiz CSV export: the cells of one line.
quizCsvRow(row) ==
    <<Joined(Num(row.id)), Quoted(row.session_id), QuotedEscaped(row.participant_name),
      Quoted(row.participant_email), Quoted(row.participant_mobile)>>
    \o [k \in 1..Len(simpleFields) |-> QuotedEscaped(row.answers[simpleFields[k]])]
    \o <<Quoted(row.submitted_at), Quoted(row.created_at)>>

ExportQuizCsvHandler ==
    /\ Serving
    /\ IF ~StoreAvailable THEN StoreUnavailable("exportQuizCsv")
       ELSE Issue([op |-> "exportQuizCsv"])
            /\ Issued("exportQuizCsv", [op |-> "exportQuizCsv"])
    /\ UNCHANGED <<initVars, lifetime, storeVars, probes, acked, callers>>

ExportQuizCsvCallback(i) ==
    /\ inflight[i].op = "exportQuizCsv"
    /\ \E err \in CallbackErrors(FALSE) :
          IF err # NoError
          THEN Respond("callback", "exportQuizCsv", 500,
                       [error |-> "Failed to export quiz answers to CSV"])
          ELSE \E o \in Orderings(quiz_answers, BySubmittedAtDesc) :
                 LET rows == Reorder(quiz_answers, o)
                 IN  Respond("callback", "exportQuizCsv", 200,
                             [contentType |-> "text/csv", header |-> quizHeaders,
                              lines |-> [k \in 1..Len(rows) |-> quizCsvRow(rows[k])]])
    /\ inflight' = [inflight EXCEPT ![i] = NoStmt]
    /\ UNCHANGED <<initVars, lifetime, storeVars, probes, acked, callers>>

\* -------------------------------------------- GET /api/quiz-answers/xlsx
\* One object of excelData: the values in the order of their labels.
quizExcelRow(row) ==
    <<Num(row.id), row.session_id, row.participant_name, row.participant_email,
      row.participant_mobile>>
    \o [k \in 1..Len(simpleFields) |-> row.answers[simpleFields[k]]]
    \o <<row.submitted_at, row.created_at>>

\* xlsx.utils.json_to_sheet: the header row is made of the keys of the
\* objects, so there is none when there is no object.
json_to_sheet(labels, data) ==
    [header |-> IF data = <<>> THEN <<>> ELSE labels, rows |-> data]

ExportQuizXlsxHandler ==
    /\ Serving
    /\ IF ~StoreAvailable THEN StoreUnavailable("exportQuizXlsx")
       ELSE Issue([op |-> "exportQuizXlsx"])
            /\ Issued("exportQuizXlsx", [op |-> "exportQuizXlsx"])
    /\ UNCHANGED <<initVars, lifetime, storeVars, probes, acked, callers>>

ExportQuizXlsxCallback(i) ==
    /\ inflight[i].op = "exportQuizXlsx"
    /\ \E err \in CallbackErrors(FALSE) :
          IF err # NoError
          THEN Respond("callback", "exportQuizXlsx", 500,
                       [error |-> "Failed to export quiz answers to Excel"])
          ELSE \E o \in Orderings(quiz_answers, BySubmittedAtDesc) :
                 LET rows == Reorder(quiz_answers, o)
                     excelData == [k \in 1..Len(rows) |-> quizExcelRow(rows[k])]
                 IN  Respond("callback", "exportQuizXlsx", 200,
                             [contentType |-> "xlsx", sheetName |-> "Quiz Answers",
                              sheet |-> json_to_sheet(quizHeaders, excelData)])
    /\ inflight' = [inflight EXCEPT ![i] = NoStmt]
    /\ UNCHANGED <<initVars, lifetime, storeVars, probes, acked, callers>>

\* ---------------------------------------------- GET /api/export/combined
combinedHeaders ==
    <<"Score ID", "Session ID", "Puzzle Name", "Puzzle Email",
      "Completion Time (ms)", "Time String", "Difficulty", "Move Count", "Accuracy",
      "Puzzle Completed At", "Results Code", "Quiz ID", "Quiz Name", "Quiz Email",
      "Mobile", "Question 1 Part 1", "Question 1 Part 2", "Question 2",
      "Question 3 Part 1", "Question 3 Part 2", "Question 4 Part 1",
      "Question 4 Part 2", "Question 5 Part 1", "Question 5 Part 2", "Question 6",
      "Recipient 1 Name", "Recipient 1 Role", "Recipient 2 Name",
      "Recipient 2 Position", "Question 7", "Additional Comments",
      "Quiz Submitted At">>

\* The columns the combined export SELECT names.
CombinedColumns(j) ==
    [score_id |-> Num(j.s.id), session_id |-> j.s.session_id,
     puzzle_name |-> j.s.name, puzzle_email |-> j.s.email,
     completion_time |-> j.s.completion_time, time_string |-> j.s.time_string,
     difficulty |-> j.s.difficulty, move_count |-> j.s.move_count,
     accuracy |-> j.s.accuracy, puzzle_completed_at |-> j.s.completed_at,
     results_code |-> j.s.results_code, quiz_id |-> j.qa.id,
     quiz_name |-> j.qa.participant_name, quiz_email |-> j.qa.participant_email,
     participant_mobile |-> j.qa.participant_mobile, answers |-> j.qa.answers,
     quiz_submitted_at |-> j.qa.submitted_at]

\* ORDER BY s.completed_at DESC
JoinedByCompletedAtDesc(j1, j2) == ByCompletedAtDesc(j1.s, j2.s)

\* csvRow of the combined CSV export: the cells of one line.
combinedCsvRow(row) ==
    <<OrEmpty(row.score_id), Quoted(row.session_id), QuotedEscaped(row.puzzle_name),
      Quoted(row.puzzle_email), OrEmpty(row.completion_time), Quoted(row.time_string),
      OrEmpty(row.difficulty), OrEmpty(row.move_count), OrEmpty(row.accuracy),
      Quoted(row.puzzle_completed_at), Quoted(row.results_code),
      OrEmpty(row.quiz_id), QuotedEscaped(row.quiz_name), Quoted(row.quiz_email),
      Quoted(row.participant_mobile)>>
    \o [k \in 1..Len(simpleFields) |-> QuotedEscaped(row.answers[simpleFields[k]])]
    \o <<Quoted(row.quiz_submitted_at)>>

\* One object of the combined excelData: the values in the order of their labels.
combinedExcelRow(row) ==
    <<row.score_id, row.session_id, row.puzzle_name, row.puzzle_email,
      row.completion_time, row.time_string, row.difficulty, row.move_count,
      row.accuracy, row.puzzle_completed_at, row.results_code, row.quiz_id,
      row.quiz_name, row.quiz_email, row.participant_mobile>>
    \o [k \in 1..Len(simpleFields) |-> row.answers[simpleFields[k]]]
    \o <<row.quiz_submitted_at>>

ExportCombinedHandler(format) ==
    /\ Serving
    /\ IF ~StoreAvailable THEN StoreUnavailable("exportCombined")
       ELSE LET stmt == [op |-> "exportCombined", args |-> [format |-> format]]
            IN  Issue(stmt) /\ Issued("exportCombined", stmt)
    /\ UNCHANGED <<initVars, lifetime, storeVars, probes, acked, callers>>

ExportCombinedCallback(i) ==
    /\ inflight[i].op = "exportCombined"
    /\ \E err \in CallbackErrors(FALSE) :
          IF err # NoError
          THEN Respond("callback", "exportCombined", 500,
                       [error |-> "Failed to export combined data"])
          ELSE LET joined == LeftJoin(scores, quiz_answers)
               IN  \E o \in Orderings(joined, JoinedByCompletedAtDesc) :
                     LET rows == [k \in 1..Len(joined) |->
                                     CombinedColumns(Reorder(joined, o)[k])]
                     IN  IF inflight[i].args.format = "csv"
                         THEN Respond("callback", "exportCombined", 200,
                                      [contentType |-> "text/csv",
                                       header |-> combinedHeaders,
                                       lines |-> [k \in 1..Len(rows) |->
                                                     combinedCsvRow(rows[k])],
                                       rows |-> rows])
                         ELSE Respond("callback", "exportCombined", 200,
                                      [contentType |-> "xlsx",
                                       sheetName |-> "Combined Export",
                                       sheet |-> json_to_sheet(combinedHeaders,
                                                    [k \in 1..Len(rows) |->
                                                        combinedExcelRow(rows[k])]),
                                       rows |-> rows])
    /\ inflight' = [inflight EXCEPT ![i] = NoStmt]
    /\ UNCHANGED <<initVars, lifetime, storeVars, probes, acked, callers>>

\* -------------------------------------------------------- GET /api/stats
RECURSIVE SumSeq(_)
SumSeq(ns) == IF ns = <<>> THEN 0 ELSE Head(ns) + SumSeq(Tail(ns))

SumOf(rows, Col(_)) == SumSeq([k \in 1..Len(rows) |-> Col(rows[k])])

completion_time_of(r) == r.completion_time.n
accuracy_of(r) == r.accuracy.n
move_count_of(r) == r.move_count.n

\* AVG(column): NULL over no rows, else the quotient sum / count, kept as
\* the pair.
Avg(rows, Col(_)) ==
    IF rows = <<>> THEN Null
    ELSE [t |-> "quotient", sum |-> SumOf(rows, Col), count |-> Len(rows)]

\* MIN(column) and MAX(column): NULL over no rows.
MinOf(rows, Col(_)) ==
    IF rows = <<>> THEN Null
    ELSE Num(CHOOSE m \in {Col(rows[k]) : k \in 1..Len(rows)} :
                 \A k \in 1..Len(rows) : m <= Col(rows[k]))

MaxOf(rows, Col(_)) ==
    IF rows = <<>> THEN Null
    ELSE Num(CHOOSE m \in {Col(rows[k]) : k \in 1..Len(rows)} :
                 \A k \in 1..Len(rows) : m >= Col(rows[k]))

GetStats ==
    /\ Serving
    /\ IF ~StoreAvailable THEN StoreUnavailable("getStats")
       ELSE Issue([op |-> "getStats"]) /\ Issued("getStats", [op |-> "getStats"])
    /\ UNCHANGED <<initVars, lifetime, storeVars, probes, acked, callers>>

GetStatsCallback(i) ==
    /\ inflight[i].op = "getStats"
    /\ \E err \in CallbackErrors(FALSE) :
          IF err # NoError
          THEN Respond("callback", "getStats", 500,
                       [error |-> "Failed to fetch statistics"])
          ELSE Respond("callback", "getStats", 200,
                       [total_completions |-> Len(scores),
                        avg_time |-> Avg(scores, completion_time_of),
                        fastest_time |-> MinOf(scores, completion_time_of),
                        slowest_time |-> MaxOf(scores, completion_time_of),
                        avg_accuracy |-> Avg(scores, accuracy_of),
                        avg_moves |-> Avg(scores, move_count_of)])
    /\ inflight' = [inflight EXCEPT ![i] = NoStmt]
    /\ UNCHANGED <<initVars, lifetime, storeVars, probes, acked, callers>>

\* ------------------------------------------------------- GET /api/health
\* dbError ? dbError.message : fallback
ErrorOr(fallback) == IF dbError # NoError THEN dbError ELSE fallback

\* res.json(healthResponse): a response already sent makes it throw
\* ERR_HTTP_HEADERS_SENT.
ResJson(probe, database) ==
    IF probe.sent = 0
    THEN [probe EXCEPT !.sent = 1, !.database = database]
    ELSE [probe EXCEPT !.threw = TRUE]

\* The handler: answers at once while the database is not ready, else arms
\* the 5 second timer and issues the count query.
HealthRequest(i) ==
    /\ Serving
    /\ ~probes[i].asked
    /\ probes' = [probes EXCEPT ![i] =
          IF db = "undefined"
          THEN ResJson([@ EXCEPT !.asked = TRUE],
                       [status |-> "initializing", ready |-> FALSE,
                        error |-> ErrorOr("Connection not established yet")])
          ELSE IF ~dbReady
          THEN ResJson([@ EXCEPT !.asked = TRUE],
                       [status |-> "not_ready", ready |-> FALSE,
                        error |-> ErrorOr("Database initialization in progress")])
          ELSE [@ EXCEPT !.asked = TRUE, !.timer = TRUE, !.query = TRUE]]
    /\ UNCHANGED <<initVars, lifetime, storeVars, inflight, acked, callers, last>>

\* A timer callback that records the timeout and sends nothing.
HealthTimeoutSilent(i) ==
    /\ probes[i].timer
    /\ probes' = [probes EXCEPT ![i].timer = FALSE]
    /\ UNCHANGED <<initVars, lifetime, storeVars, inflight, acked, callers, last>>

\* queryTimeout fires.
HealthTimeout(i) ==
    /\ probes[i].timer
    /\ probes' = [probes EXCEPT ![i] =
          ResJson([@ EXCEPT !.timer = FALSE],
                  [status |-> "timeout", ready |-> FALSE, error |-> "Query timeout"])]
    /\ UNCHANGED <<initVars, lifetime, storeVars, inflight, acked, callers, last>>

\* The callback of SELECT COUNT(*) as count FROM scores.
HealthQueryCallback(i) ==
    /\ probes[i].query
    /\ \E err \in CallbackErrors(FALSE) :
          probes' = [probes EXCEPT ![i] =
             ResJson([@ EXCEPT !.timer = FALSE, !.query = FALSE],
                     IF err # NoError
                     THEN [status |-> "error", ready |-> TRUE, error |-> err]
                     ELSE [status |-> "healthy", ready |-> TRUE,
                           scores_count |-> Len(scores)])]
    /\ UNCHANGED <<initVars, lifetime, storeVars, inflight, acked, callers, last>>

\* -------------------------------------------------------- GET /api/ready
GetReady ==
    /\ Serving
    /\ IF dbReady /\ db # "undefined"
       THEN Respond("handler", "getReady", 200,
                    [status |-> "ready", database |-> "connected"])
       ELSE Respond("handler", "getReady", 503,
                    [status |-> "not_ready",
                     database |-> IF dbReady THEN "connected" ELSE "not_ready",
                     error |-> ErrorOr("Initialization in progress")])
    /\ UNCHANGED <<initVars, lifetime, storeVars, inflight, probes, acked, callers>>

\* ---------------------------------------------------------------- inputs
BaseCompletion ==
    [sessionId |-> Str(<<"S", "1">>), name |-> Str(<<"A">>),
     email |-> Str(<<"a", "@", "b", ".", "c">>), completionTime |-> Num(2),
     timeString |-> Str(<<"2">>), difficulty |-> Num(8), moveCount |-> Num(5),
     accuracy |-> Num(85), completedAt |-> Str(<<"1">>),
     resultsCode |-> Str(<<"R">>)]

Completions ==
    {BaseCompletion,
     [BaseCompletion EXCEPT !.sessionId = TestSessionId, !.completionTime = Num(1)],
     [BaseCompletion EXCEPT !.name = Undefined],
     [BaseCompletion EXCEPT !.email = Str(<<"a", "@", "b">>)],
     [BaseCompletion EXCEPT !.accuracy = Null]}

NoAnswers == [f \in AnswerColumns |-> Undefined]

BaseQuiz ==
    [sessionId |-> Str(<<"S", "1">>), participantName |-> Str(<<"A">>),
     participantEmail |-> Str(<<"a", "@", "b", ".", "c">>),
     participantMobile |-> Str(<<"5">>),
     answers |-> [NoAnswers EXCEPT !["question1_part1"] = Str(<<"x", "\"">>),
                                   !["question2"] = Str(<<>>)],
     submittedAt |-> Str(<<"1">>)]

Quizzes ==
    {BaseQuiz,
     [BaseQuiz EXCEPT !.participantEmail = Str(<<"z", "@", "b", ".", "c">>),
                      !.participantName = Str(<<"Z">>)],
     [BaseQuiz EXCEPT !.participantMobile = Undefined],
     [BaseQuiz EXCEPT !.participantEmail = Str(<<"a", " ", "@", "b", ".", "c">>)]}

Emails == {Undefined, Str(<<"a", "@", "b", ".", "c">>), Str(<<"z", "@", "b", ".", "c">>)}
Names == {Undefined, Str(<<"A">>), Str(<<"Z">>)}

NoCredential == [authorization |-> Undefined, xAdminToken |-> Undefined,
                 token |-> Undefined]

Credentials ==
    {NoCredential,
     [NoCredential EXCEPT !.authorization = Str(BearerPrefix \o ADMIN_TOKEN)],
     [NoCredential EXCEPT !.authorization = Str(BearerPrefix \o <<"w">>)],
     [NoCredential EXCEPT !.xAdminToken = Str(ADMIN_TOKEN)],
     [NoCredential EXCEPT !.token = Str(ADMIN_TOKEN)],
     [NoCredential EXCEPT !.token = Str(<<"w">>)],
     [NoCredential EXCEPT !.authorization = Str(ADMIN_TOKEN)],
     [NoCredential EXCEPT !.authorization = Str(ADMIN_TOKEN),
                          !.token = Str(ADMIN_TOKEN)],
     [NoCredential EXCEPT !.authorization = Str(BearerPrefix \o <<"w">>),
                          !.xAdminToken = Str(ADMIN_TOKEN)],
     [NoCredential EXCEPT !.authorization = Str(BearerPrefix \o ADMIN_TOKEN),
                          !.xAdminToken = Str(<<"w">>)],
     [NoCredential EXCEPT !.xAdminToken = Str(<<"w">>),
                          !.token = Str(ADMIN_TOKEN)],
     [NoCredential EXCEPT !.xAdminToken = Str(<<>>),
                          !.token = Str(ADMIN_TOKEN)]}

\* req.query.format: absent, or the text given.
Formats == {"undefined", "raw"}

\* req.query.format of the combined export.
ExportFormats == {"undefined", "csv"}

Offsets == {Undefined, Str(<<"1">>)}
Searches == {Undefined, Str(<<"a">>), Str(<<"z">>)}

Limits == {Undefined, Str(<<"1">>)}
Difficulties == {Undefined, Str(<<"8">>)}

\* ------------------------------------------------------------------ Spec
SubmitCompletionRequest == \E p \in Completions : SubmitCompletion(p)
SubmitCompletionDone == \E i \in DOMAIN inflight : SubmitCompletionCallback(i)
SubmitQuizAnswersRequest ==
    /\ \E p \in Quizzes : SubmitQuizAnswers(p)
    /\ UNCHANGED callers
SubmitQuizAnswersDone ==
    /\ \E i \in DOMAIN inflight : SubmitQuizAnswersCallback(i)
    /\ UNCHANGED callers
CheckDuplicateQuizRequest ==
    /\ \E email \in Emails, name \in Names : CheckDuplicateQuiz(email, name)
    /\ UNCHANGED callers
CheckDuplicateQuizDone ==
    /\ \E i \in DOMAIN inflight : CheckDuplicateQuizCallback(i)
    /\ UNCHANGED callers
CheckDuplicateEmailRequest == \E email \in Emails : CheckDuplicateEmail(email)
CheckDuplicateEmailDone == \E i \in DOMAIN inflight : CheckDuplicateEmailCallback(i)
GetLeaderboardWith(cred) ==
    Protected("getLeaderboard", cred,
                  \E limit \in Limits, d \in Difficulties :
                      GetLeaderboardHandler(limit, d))
GetLeaderboardRequest == \E cred \in Credentials : GetLeaderboardWith(cred)
GetLeaderboardDone == \E i \in DOMAIN inflight : GetLeaderboardCallback(i)
ExportCompletionsWith(cred) ==
    Protected("exportCompletions", cred, ExportCompletionsHandler)
ExportCompletionsRequest == \E cred \in Credentials : ExportCompletionsWith(cred)
ExportCompletionsDone == \E i \in DOMAIN inflight : ExportCompletionsCallback(i)
ExportQuizAnswersWith(cred) ==
    Protected("exportQuizAnswers", cred,
                  \E format \in Formats : ExportQuizAnswersHandler(format))
ExportQuizAnswersRequest == \E cred \in Credentials : ExportQuizAnswersWith(cred)
ExportQuizAnswersDone == \E i \in DOMAIN inflight : ExportQuizAnswersCallback(i)
GetJoinedLeaderboardWith(cred) ==
    Protected("getJoinedLeaderboard", cred,
                  \E limit \in Limits, d \in Difficulties, format \in Formats :
                      GetJoinedLeaderboardHandler(limit, d, format))
GetJoinedLeaderboardRequest == \E cred \in Credentials : GetJoinedLeaderboardWith(cred)
GetJoinedLeaderboardDone == \E i \in DOMAIN inflight : GetJoinedLeaderboardCallback(i)

GetQuizFormattedWith(cred) ==
    Protected("getQuizFormatted", cred,
                  \E limit \in Limits, offset \in Offsets, search \in Searches :
                      QuizFormattedHandler(limit, offset, search))
GetQuizFormattedRequest == \E cred \in Credentials : GetQuizFormattedWith(cred)
GetQuizFormattedPageDone == \E i \in DOMAIN inflight : QuizFormattedPageCallback(i)
GetQuizFormattedCountDone == \E i \in DOMAIN inflight : QuizFormattedCountCallback(i)
ExportQuizCsvWith(cred) ==
    Protected("exportQuizCsv", cred, ExportQuizCsvHandler)
ExportQuizCsvRequest == \E cred \in Credentials : ExportQuizCsvWith(cred)
ExportQuizCsvDone == \E i \in DOMAIN inflight : ExportQuizCsvCallback(i)
ExportQuizXlsxWith(cred) ==
    Protected("exportQuizXlsx", cred, ExportQuizXlsxHandler)
ExportQuizXlsxRequest == \E cred \in Credentials : ExportQuizXlsxWith(cred)
ExportQuizXlsxDone == \E i \in DOMAIN inflight : ExportQuizXlsxCallback(i)
ExportCombinedWith(cred) ==
    Protected("exportCombined", cred,
                  \E format \in ExportFormats : ExportCombinedHandler(format))
ExportCombinedRequest == \E cred \in Credentials : ExportCombinedWith(cred)
ExportCombinedDone == \E i \in DOMAIN inflight : ExportCombinedCallback(i)
GetStatsRequest == GetStats
GetStatsDone == \E i \in DOMAIN inflight : GetStatsCallback(i)

\* The request to the protected route of operation op with credential cred.
RequestOf(op, cred) ==
    CASE op = "getLeaderboard" -> GetLeaderboardWith(cred)
      [] op = "exportCompletions" -> ExportCompletionsWith(cred)
      [] op = "exportQuizAnswers" -> ExportQuizAnswersWith(cred)
      [] op = "getJoinedLeaderboard" -> GetJoinedLeaderboardWith(cred)
      [] op = "getQuizFormatted" -> GetQuizFormattedWith(cred)
      [] op = "exportQuizCsv" -> ExportQuizCsvWith(cred)
      [] op = "exportQuizXlsx" -> ExportQuizXlsxWith(cred)
      [] op = "exportCombined" -> ExportCombinedWith(cred)
      [] OTHER -> FALSE

\* A request to a protected route that carries the credential cred.
GuardedRequest(cred) ==
    \/ GetLeaderboardWith(cred)
    \/ ExportCompletionsWith(cred)
    \/ ExportQuizAnswersWith(cred)
    \/ GetJoinedLeaderboardWith(cred)
    \/ GetQuizFormattedWith(cred)
    \/ ExportQuizCsvWith(cred)
    \/ ExportQuizXlsxWith(cred)
    \/ ExportCombinedWith(cred)


Next ==
    \/ OpenDatabase
    \/ OpenCallback
    \/ CreateScoresCallback
    \/ CreateQuizCallback
    \/ TestInsertCallback
    \/ TestDeleteCallback
    \/ SubmitCompletionRequest
    \/ SubmitCompletionDone
    \/ SubmitQuizAnswersRequest
    \/ SubmitQuizAnswersDone
    \/ CheckDuplicateQuizRequest
    \/ CheckDuplicateQuizDone
    \/ CheckDuplicateEmailRequest
    \/ CheckDuplicateEmailDone
    \/ GetLeaderboardRequest
    \/ GetLeaderboardDone
    \/ ExportCompletionsRequest
    \/ ExportCompletionsDone
    \/ ExportQuizAnswersRequest
    \/ ExportQuizAnswersDone
    \/ GetJoinedLeaderboardRequest
    \/ GetJoinedLeaderboardDone
    \/ GetQuizFormattedRequest
    \/ GetQuizFormattedPageDone
    \/ GetQuizFormattedCountDone
    \/ ExportQuizCsvRequest
    \/ ExportQuizCsvDone
    \/ ExportQuizXlsxRequest
    \/ ExportQuizXlsxDone
    \/ ExportCombinedRequest
    \/ ExportCombinedDone
    \/ GetStatsRequest
    \/ GetStatsDone

Spec == Init /\ [][Next]_vars

\* ---------------------------------------------------------- RestartSpec
\* The server over several process lifetimes on one database file.
NextRestart ==
    \/ OpenDatabase
    \/ OpenCallback
    \/ CreateScoresCallback
    \/ CreateQuizCallback
    \/ TestInsertCallback
    \/ TestDeleteCallback
    \/ Restart
    \/ SubmitCompletionRequest
    \/ SubmitCompletionDone
    \/ GetLeaderboardRequest
    \/ GetLeaderboardDone

RestartSpec == Init /\ [][NextRestart]_vars

\* ----------------------------------------------------------- HealthSpec
HealthRequested == \E i \in DOMAIN probes : HealthRequest(i)
HealthTimedOut == \E i \in DOMAIN probes : HealthTimeout(i)
HealthQueryDone == \E i \in DOMAIN probes : HealthQueryCallback(i)

NextHealth ==
    \/ OpenDatabase
    \/ OpenCallback
    \/ CreateScoresCallback
    \/ CreateQuizCallback
    \/ TestInsertCallback
    \/ TestDeleteCallback
    \/ HealthRequested
    \/ HealthTimedOut
    \/ HealthQueryDone
    \/ GetReady

\* A timer that stays armed fires; nothing makes the store complete a query.
HealthSpec ==
    Init /\ [][NextHealth]_vars /\ \A i \in 1..MaxProbes : WF_vars(HealthTimeout(i))

\* --------------------------------------------------------- ValidateSpec
\* POST /api/scores over a wide set of request bodies.
StringFields == {"sessionId", "name", "timeString", "completedAt", "resultsCode"}
NumberFields == {"completionTime", "difficulty", "moveCount"}

WideEmails ==
    {Undefined, Null, Str(<<>>), Num(5),
     Str(<<"a", "@", "b", ".", "c", ".", "d">>), Str(<<"a", "b">>),
     Str(<<"a", "@", "b">>), Str(<<"a", "@", ".", "c">>), Str(<<"@", "b", ".", "c">>),
     Str(<<"a", "@", "b", ".">>), Str(<<"a", " ", "@", "b", ".", "c">>),
     Str(<<"a", "@", "@", "b", ".", "c">>)}

WideCompletions ==
    {BaseCompletion}
    \cup {[BaseCompletion EXCEPT ![f] = v] :
             f \in StringFields, v \in {Undefined, Null, Str(<<>>)}}
    \cup {[BaseCompletion EXCEPT ![f] = v] :
             f \in NumberFields, v \in {Undefined, Null, Num(0)}}
    \cup {[BaseCompletion EXCEPT !.accuracy = v] : v \in {Undefined, Null, Num(0)}}
    \cup {[BaseCompletion EXCEPT !.email = v] : v \in WideEmails}
    \cup {[BaseCompletion EXCEPT !.accuracy = Num(0), !.completionTime = Num(0)],
          [BaseCompletion EXCEPT !.name = Undefined, !.email = Str(<<"a", "b">>)],
          [BaseCompletion EXCEPT !.accuracy = Undefined, !.moveCount = Undefined],
          [BaseCompletion EXCEPT !.accuracy = Num(0), !.email = Str(<<"a", "b">>)]}

SubmitWideCompletionRequest == \E p \in WideCompletions : SubmitCompletion(p)

NextValidate ==
    \/ OpenDatabase
    \/ OpenCallback
    \/ CreateScoresCallback
    \/ CreateQuizCallback
    \/ TestInsertCallback
    \/ TestDeleteCallback
    \/ SubmitWideCompletionRequest
    \/ SubmitCompletionDone

ValidateSpec == Init /\ [][NextValidate]_vars

\* ------------------------------------------------------------- JoinSpec
\* Both submit routes with the two routes that read the join.
NextJoin ==
    \/ OpenDatabase
    \/ OpenCallback
    \/ CreateScoresCallback
    \/ CreateQuizCallback
    \/ TestInsertCallback
    \/ TestDeleteCallback
    \/ SubmitCompletionRequest
    \/ SubmitCompletionDone
    \/ SubmitQuizAnswersRequest
    \/ SubmitQuizAnswersDone
    \/ GetJoinedLeaderboardRequest
    \/ GetJoinedLeaderboardDone
    \/ ExportCombinedRequest
    \/ ExportCombinedDone

JoinSpec == Init /\ [][NextJoin]_vars

\* -------------------------------------------------------- DuplicateSpec
\* Both submit routes with the quiz duplicate check.
NextDuplicate ==
    \/ OpenDatabase
    \/ OpenCallback
    \/ CreateScoresCallback
    \/ CreateQuizCallback
    \/ TestInsertCallback
    \/ TestDeleteCallback
    \/ SubmitCompletionRequest
    \/ SubmitCompletionDone
    \/ SubmitQuizAnswersRequest
    \/ SubmitQuizAnswersDone
    \/ CheckDuplicateQuizRequest
    \/ CheckDuplicateQuizDone

DuplicateSpec == Init /\ [][NextDuplicate]_vars

\* ----------------------------------------------------------- CallerSpec
\* Clients of the quiz routes that follow the advised protocol: a caller
\* posts its email and name to /api/quiz-answers/check-duplicate and posts
\* its submission to /api/quiz-answers only after isDuplicate: false.
CallerIdentities ==
    {[email |-> Str(<<"a", "@", "b", ".", "c">>), name |-> Str(<<"A">>)],
     [email |-> Str(<<"a", "@", "b", ".", "c">>), name |-> Str(<<"Z">>)],
     [email |-> Str(<<"z", "@", "b", ".", "c">>), name |-> Str(<<"Z">>)]}

\* The caller is between the start of its check and the end of its submit.
Busy(c) == callers[c].pc \in {"checking", "clear", "submitting"}

\* The slot the statement issued in this step went to.
IssuedSlot == CHOOSE i \in DOMAIN inflight : inflight'[i] # inflight[i]

CallerCheck(c) ==
    /\ callers[c].pc = "idle"
    /\ StoreAvailable
    /\ \E who \in CallerIdentities :
          /\ CheckDuplicateQuiz(who.email, who.name)
          /\ callers' = [d \in DOMAIN callers |->
                IF d = c
                THEN [pc |-> "checking", email |-> who.email, name |-> who.name,
                      slot |-> IssuedSlot,
                      alone |-> \A e \in DOMAIN callers \ {c} : ~Busy(e)]
                ELSE IF Busy(d) THEN [callers[d] EXCEPT !.alone = FALSE]
                ELSE callers[d]]

CallerChecked(c) ==
    /\ callers[c].pc = "checking"
    /\ CheckDuplicateQuizCallback(callers[c].slot)
    /\ callers' = [callers EXCEPT ![c].pc =
                      IF last'.status = 200 /\ ~last'.body.isDuplicate
                      THEN "clear" ELSE "stopped"]

CallerSubmit(c) ==
    /\ callers[c].pc = "clear"
    /\ StoreAvailable
    /\ SubmitQuizAnswers([BaseQuiz EXCEPT !.participantEmail = callers[c].email,
                                          !.participantName = callers[c].name])
    /\ callers' = [callers EXCEPT ![c].pc = "submitting", ![c].slot = IssuedSlot]

CallerSubmitted(c) ==
    /\ callers[c].pc = "submitting"
    /\ SubmitQuizAnswersCallback(callers[c].slot)
    /\ callers' = [callers EXCEPT ![c].pc = "done"]

CallerChecks == \E c \in DOMAIN callers : CallerCheck(c)
CallerGetsAnswer == \E c \in DOMAIN callers : CallerChecked(c)
CallerSubmits == \E c \in DOMAIN callers : CallerSubmit(c)
CallerGetsStored == \E c \in DOMAIN callers : CallerSubmitted(c)

NextCaller ==
    \/ OpenDatabase
    \/ OpenCallback
    \/ CreateScoresCallback
    \/ CreateQuizCallback
    \/ TestInsertCallback
    \/ TestDeleteCallback
    \/ CallerChecks
    \/ CallerGetsAnswer
    \/ CallerSubmits
    \/ CallerGetsStored

CallerSpec == Init /\ [][NextCaller]_vars

\* ----------------------------------------------------------- SubmitSpec
\* The two submit routes side by side.
NextSubmit ==
    \/ OpenDatabase
    \/ OpenCallback
    \/ CreateScoresCallback
    \/ CreateQuizCallback
    \/ TestInsertCallback
    \/ TestDeleteCallback
    \/ SubmitCompletionRequest
    \/ SubmitCompletionDone
    \/ SubmitQuizAnswersRequest
    \/ SubmitQuizAnswersDone

SubmitSpec == Init /\ [][NextSubmit]_vars

\* ------------------------------------------------------------ GuardSpec
\* Completions and every protected route.
NextGuard ==
    \/ OpenDatabase
    \/ OpenCallback
    \/ CreateScoresCallback
    \/ CreateQuizCallback
    \/ TestInsertCallback
    \/ TestDeleteCallback
    \/ SubmitCompletionRequest
    \/ SubmitCompletionDone
    \/ GetLeaderboardRequest
    \/ GetLeaderboardDone
    \/ ExportCompletionsRequest
    \/ ExportCompletionsDone
    \/ ExportQuizAnswersRequest
    \/ ExportQuizAnswersDone
    \/ GetJoinedLeaderboardRequest
    \/ GetJoinedLeaderboardDone
    \/ GetQuizFormattedRequest
    \/ GetQuizFormattedPageDone
    \/ GetQuizFormattedCountDone
    \/ ExportQuizCsvRequest
    \/ ExportQuizCsvDone
    \/ ExportQuizXlsxRequest
    \/ ExportQuizXlsxDone
    \/ ExportCombinedRequest
    \/ ExportCombinedDone

GuardSpec == Init /\ [][NextGuard]_vars

\* ----------------------------------------------------------- ExportSpec
\* Payloads with double quotes in their text and with accuracy 0.
CsvCompletions ==
    {BaseCompletion,
     [BaseCompletion EXCEPT !.accuracy = Num(0), !.name = Str(<<"A", "\"">>)],
     [BaseCompletion EXCEPT !.resultsCode = Str(<<"R", "\"">>),
                            !.sessionId = Str(<<"S", "2">>)]}

CsvQuizzes ==
    {BaseQuiz,
     [BaseQuiz EXCEPT !.participantMobile = Str(<<"5", "\"">>),
                      !.participantName = Str(<<"A", "\"">>)]}

SubmitCsvCompletionRequest == \E p \in CsvCompletions : SubmitCompletion(p)
SubmitCsvQuizRequest ==
    /\ \E p \in CsvQuizzes : SubmitQuizAnswers(p)
    /\ UNCHANGED callers

\* Submissions and the three file exports.
NextExport ==
    \/ OpenDatabase
    \/ OpenCallback
    \/ CreateScoresCallback
    \/ CreateQuizCallback
    \/ TestInsertCallback
    \/ TestDeleteCallback
    \/ SubmitCsvCompletionRequest
    \/ SubmitCompletionDone
    \/ SubmitCsvQuizRequest
    \/ SubmitQuizAnswersDone
    \/ ExportQuizCsvRequest
    \/ ExportQuizCsvDone
    \/ ExportQuizXlsxRequest
    \/ ExportQuizXlsxDone
    \/ ExportCombinedRequest
    \/ ExportCombinedDone

ExportSpec == Init /\ [][NextExport]_vars

\* ------------------------------------------------------- src/server.js
\* The earlier server: one table, no readiness flag, no Access Guard. It
\* uses db, initPc, the scores table, inflight and last; initPc is "failed"
\* once the open callback has reported an error.
ServerJsFrame == UNCHANGED <<dbReady, dbError, initLog, lifetime, quiz_answers,
                             quizSeq, probes, callers>>

\* db = new sqlite3.Database(path, callback) inside try/catch: the handle is
\* assigned before the callback runs; a throw leaves db undefined.
ServerJsOpen ==
    /\ initPc = "start"
    /\ \/ db' = "handle" /\ initPc' = "open"
       \/ db' = db /\ initPc' = "done"
    /\ ServerJsFrame
    /\ UNCHANGED <<scores, scoresSeq, inflight, acked, last>>

\* The open callback: an error is logged, db keeps the handle; otherwise
\* db.run(CREATE TABLE IF NOT EXISTS scores ...).
ServerJsOpenCallback ==
    /\ initPc = "open"
    /\ \E err \in {NoError} \cup StoreErrors :
          initPc' = IF err # NoError THEN "failed" ELSE "createScores"
    /\ ServerJsFrame
    /\ UNCHANGED <<db, scores, scoresSeq, inflight, acked, last>>

\* The callback of CREATE TABLE: it logs either way.
ServerJsCreateCallback ==
    /\ initPc = "createScores"
    /\ initPc' = "done"
    /\ ServerJsFrame
    /\ UNCHANGED <<db, scores, scoresSeq, inflight, acked, last>>

\* res.status(503).json({ error: 'Database not available' })
ServerJsUnavailable(op) ==
    /\ Respond("handler", op, 503, [error |-> "Database not available"])
    /\ UNCHANGED inflight

\* A handler that calls a method of db while db is undefined throws a
\* TypeError, which Express answers with 500.
ServerJsThrows(op) ==
    /\ Respond("handler", op, 500, [thrown |-> "TypeError"])
    /\ UNCHANGED inflight

\* What the store reports for a statement on a handle whose open failed.
ServerJsClosedError == "SQLITE_MISUSE"

\* The err of a statement's callback; sqlite3 holds the statement back until
\* the open has completed.
ServerJsCallbackErrors(constraintFails) ==
    IF initPc = "failed" THEN {ServerJsClosedError}
    ELSE CallbackErrors(constraintFails)

\* app.post('/api/scores')
ServerJsSaveScore(p) ==
    /\ initPc # "start"
    /\ IF db = "undefined" THEN ServerJsUnavailable("saveScore")
       ELSE IF MissingCompletion(p)
       THEN /\ RespondTo(p, "handler", "saveScore", 400,
                          [error |-> "Missing required fields",
                           required |-> requiredCompletion, received |-> p])
            /\ UNCHANGED inflight
       ELSE IF ~emailRegexTest(p.email)
       THEN /\ RespondTo(p, "handler", "saveScore", 400,
                          [error |-> "Invalid email format"])
            /\ UNCHANGED inflight
       ELSE /\ Len(scores) + PendingScoreInserts < MaxRows
            /\ Issue([op |-> "saveScore", args |-> p])
            /\ Issued("saveScore", [op |-> "saveScore", args |-> p])
    /\ ServerJsFrame
    /\ UNCHANGED <<db, initPc, scores, scoresSeq, acked>>

ServerJsSaveScoreCallback(i) ==
    /\ inflight[i].op = "saveScore"
    /\ initPc # "open"
    /\ LET p == inflight[i].args
       IN  \E err \in ServerJsCallbackErrors(ScoreConstraintFails(p)) :
             IF err # NoError
             THEN /\ Respond("callback", "saveScore", 500,
                             [error |-> "Failed to save score", details |-> err])
                  /\ UNCHANGED <<scores, scoresSeq, acked>>
             ELSE /\ scores' = Append(scores, ScoreRow(scoresSeq + 1, p))
                  /\ scoresSeq' = scoresSeq + 1
                  /\ acked' = acked \cup {scoresSeq + 1}
                  /\ Respond("callback", "saveScore", 200,
                             [id |-> scoresSeq + 1, sessionId |-> p.sessionId])
    /\ inflight' = [inflight EXCEPT ![i] = NoStmt]
    /\ ServerJsFrame
    /\ UNCHANGED <<db, initPc>>

\* app.get('/api/leaderboard')
ServerJsLeaderboard(limit, difficulty) ==
    /\ initPc # "start"
    /\ IF db = "undefined" THEN ServerJsUnavailable("leaderboard")
       ELSE LET stmt == [op |-> "leaderboard",
                         args |-> [limit |-> limit, difficulty |-> difficulty]]
            IN  Issue(stmt) /\ Issued("leaderboard", stmt)
    /\ ServerJsFrame
    /\ UNCHANGED <<db, initPc, scores, scoresSeq, acked>>

\* The SELECT of server.js names no email column.
ServerJsLeaderboardColumns(row) ==
    [f \in DOMAIN row \ {"email"} |-> row[f]]

ServerJsLeaderboardCallback(i) ==
    /\ inflight[i].op = "leaderboard"
    /\ initPc # "open"
    /\ \E err \in ServerJsCallbackErrors(FALSE) :
          IF err # NoError
          THEN Respond("callback", "leaderboard", 500,
                       [error |-> "Failed to fetch leaderboard"])
          ELSE \E rows \in LeaderboardResults(scores, inflight[i].args.limit,
                                              inflight[i].args.difficulty) :
                 Respond("callback", "leaderboard", 200,
                         [rows |-> [k \in 1..Len(rows) |->
                                       ServerJsLeaderboardColumns(rows[k])]])
    /\ inflight' = [inflight EXCEPT ![i] = NoStmt]
    /\ ServerJsFrame
    /\ UNCHANGED <<db, initPc, scores, scoresSeq, acked>>

\* app.get('/api/scores/export'): db.all with no test of db.
ServerJsExport ==
    /\ initPc # "start"
    /\ IF db = "undefined" THEN ServerJsThrows("exportScores")
       ELSE Issue([op |-> "exportScores"])
            /\ Issued("exportScores", [op |-> "exportScores"])
    /\ ServerJsFrame
    /\ UNCHANGED <<db, initPc, scores, scoresSeq, acked>>

ServerJsExportCallback(i) ==
    /\ inflight[i].op = "exportScores"
    /\ initPc # "open"
    /\ \E err \in ServerJsCallbackErrors(FALSE) :
          IF err # NoError
          THEN Respond("callback", "exportScores", 500,
                       [error |-> "Failed to export scores"])
          ELSE \E o \in Orderings(scores, ByCompletedAtDesc) :
                 Respond("callback", "exportScores", 200,
                         [total |-> Len(scores), scores |-> Reorder(scores, o)])
    /\ inflight' = [inflight EXCEPT ![i] = NoStmt]
    /\ ServerJsFrame
    /\ UNCHANGED <<db, initPc, scores, scoresSeq, acked>>

\* app.get('/api/stats'): db.get with no test of db.
ServerJsStats ==
    /\ initPc # "start"
    /\ IF db = "undefined" THEN ServerJsThrows("stats")
       ELSE Issue([op |-> "stats"]) /\ Issued("stats", [op |-> "stats"])
    /\ ServerJsFrame
    /\ UNCHANGED <<db, initPc, scores, scoresSeq, acked>>

ServerJsStatsCallback(i) ==
    /\ inflight[i].op = "stats"
    /\ initPc # "open"
    /\ \E err \in ServerJsCallbackErrors(FALSE) :
          IF err # NoError
          THEN Respond("callback", "stats", 500,
                       [error |-> "Failed to fetch statistics"])
          ELSE Respond("callback", "stats", 200,
                       [total_completions |-> Len(scores),
                        avg_time |-> Avg(scores, completion_time_of),
                        fastest_time |-> MinOf(scores, completion_time_of),
                        slowest_time |-> MaxOf(scores, completion_time_of),
                        avg_accuracy |-> Avg(scores, accuracy_of),
                        avg_moves |-> Avg(scores, move_count_of)])
    /\ inflight' = [inflight EXCEPT ![i] = NoStmt]
    /\ ServerJsFrame
    /\ UNCHANGED <<db, initPc, scores, scoresSeq, acked>>

ServerJsSaveScoreRequest == \E p \in Completions : ServerJsSaveScore(p)
ServerJsSaveScoreDone == \E i \in DOMAIN inflight : ServerJsSaveScoreCallback(i)
ServerJsLeaderboardRequest ==
    \E limit \in Limits, d \in Difficulties : ServerJsLeaderboard(limit, d)
ServerJsLeaderboardDone == \E i \in DOMAIN inflight : ServerJsLeaderboardCallback(i)
ServerJsExportDone == \E i \in DOMAIN inflight : ServerJsExportCallback(i)
ServerJsStatsDone == \E i \in DOMAIN inflight : ServerJsStatsCallback(i)

NextServerJs ==
    \/ ServerJsOpen
    \/ ServerJsOpenCallback
    \/ ServerJsCreateCallback
    \/ ServerJsSaveScoreRequest
    \/ ServerJsSaveScoreDone
    \/ ServerJsLeaderboardRequest
    \/ ServerJsLeaderboardDone
    \/ ServerJsExport
    \/ ServerJsExportDone
    \/ ServerJsStats
    \/ ServerJsStatsDone

ServerJsSpec == Init /\ [][NextServerJs]_vars

\* ----------------------------------------------------------- PagingSpec
\* Quiz submissions and the paginated view, with room for a submission's
\* INSERT to be in flight next to the view's two queries.
PagingInflight == MaxInflight + 1

InitPaging ==
    /\ db = "undefined"
    /\ dbReady = FALSE
    /\ dbError = NoError
    /\ initPc = "start"
    /\ initLog = <<>>
    /\ lifetime = 0
    /\ scores = <<>>
    /\ scoresSeq = 0
    /\ quiz_answers = <<>>
    /\ quizSeq = 0
    /\ inflight = [i \in 1..PagingInflight |-> NoStmt]
    /\ probes = [i \in 1..MaxProbes |-> IdleProbe]
    /\ acked = {}
    /\ callers = [c \in 1..MaxCallers |-> IdleCaller]
    /\ last = NoResponse

NextPaging ==
    \/ OpenDatabase
    \/ OpenCallback
    \/ CreateScoresCallback
    \/ CreateQuizCallback
    \/ TestInsertCallback
    \/ TestDeleteCallback
    \/ SubmitQuizAnswersRequest
    \/ SubmitQuizAnswersDone
    \/ GetQuizFormattedRequest
    \/ GetQuizFormattedPageDone
    \/ GetQuizFormattedCountDone

PagingSpec == InitPaging /\ [][NextPaging]_vars

\* ================================================================ claims
\* The operations that work on the store, by the name their responses carry.
GatedOps ==
    {"submitCompletion", "submitQuizAnswers", "checkDuplicateQuiz",
     "checkDuplicateEmail", "getLeaderboard", "getJoinedLeaderboard",
     "exportCompletions", "exportQuizAnswers", "getQuizFormatted", "exportQuizCsv",
     "exportQuizXlsx", "exportCombined", "getStats"}

\* The readiness state is Ready.
IsReady == dbReady /\ db = "handle"

\* The readiness state is Failed.
IsFailed == ~dbReady /\ dbError # NoError

\* A handler ran in this step.
HandlerStep == last' # last /\ last'.kind = "handler"

\* C1: a store operation invoked while the readiness state is not Ready is
\* answered 503 'Database not available', and the step hands no statement
\* to the store and leaves both tables as they are.
C1_NotReadyRefused ==
    [][(HandlerStep /\ last'.op \in GatedOps /\ ~IsReady)
        => /\ last'.status = 503
           /\ last'.body.error = "Database not available"
           /\ inflight' = inflight
           /\ UNCHANGED storeVars]_vars

\* C1 witness: submitCompletion was refused while initialization was still
\* running.
C1_Witness ==
    /\ initPc \in {"open", "createScores", "createQuiz", "testInsert", "testDelete"}
    /\ last.kind = "handler" /\ last.op = "submitCompletion" /\ last.status = 503

CleanInitLog ==
    <<[step |-> "open", err |-> NoError], [step |-> "createScores", err |-> NoError],
      [step |-> "createQuiz", err |-> NoError], [step |-> "testInsert", err |-> NoError],
      [step |-> "testDelete", err |-> NoError]>>

\* C2: the state is Ready only when the open, both table creations, the
\* self-test insert and the self-test delete have, in this order, all
\* completed without error.
C2_ReadyOnlyAfterCleanInit == dbReady => initLog = CleanInitLog

\* C3: an error reported by any initialization step leaves the state Failed
\* with exactly that error recorded.
C3_StepErrorRecorded ==
    \A k \in 1..Len(initLog) :
        initLog[k].err # NoError => (~dbReady /\ dbError = initLog[k].err)

\* C4: once Failed, no step of the same process makes the state Ready or
\* changes the recorded error.
C4_FailedAbsorbing ==
    [][(IsFailed /\ lifetime' = lifetime) => (~dbReady' /\ dbError' = dbError)]_vars

\* C4 witness: a request was served after initialization had failed on the
\* creation of the quiz_answers table.
C4_Witness ==
    /\ IsFailed /\ initPc = "done"
    /\ Len(initLog) = 3 /\ initLog[3].err # NoError
    /\ last.kind = "handler" /\ last.op = "getStats" /\ last.status = 503

\* C5: every health request gets exactly one response and none of its
\* callbacks throws, whatever the order of the timer and the count query.
C5_OneResponseNoThrow ==
    \A i \in DOMAIN probes :
        /\ ~probes[i].threw
        /\ probes[i].sent <= 1
        /\ (probes[i].asked /\ ~probes[i].timer /\ ~probes[i].query)
              => probes[i].sent = 1

\* C6: every health request is answered; one made while the state is not
\* Ready is answered in the same step without a store call, and when the
\* timer fires before the count query completes the answer is the timeout
\* state (ready false, 'Query timeout').
C6_ProbeAnswered ==
    /\ \A i \in 1..MaxProbes : probes[i].asked ~> (probes[i].sent = 1)
    /\ [][\A i \in 1..MaxProbes :
            (~probes[i].asked /\ probes'[i].asked /\ ~IsReady)
               => /\ probes'[i].sent = 1
                  /\ ~probes'[i].timer /\ ~probes'[i].query
                  /\ probes'[i].database.ready = FALSE
                  /\ inflight' = inflight]_vars
    /\ [][\A i \in 1..MaxProbes :
            (probes[i].timer /\ probes[i].sent = 0 /\ probes'[i].query
             /\ ~probes'[i].timer)
               => /\ probes'[i].sent = 1
                  /\ probes'[i].database
                       = [status |-> "timeout", ready |-> FALSE,
                          error |-> "Query timeout"]]_vars

\* C6 witness: the timer answered a request whose count query the store has
\* not completed.
C6_Witness ==
    \E i \in DOMAIN probes :
        /\ probes[i].query /\ ~probes[i].timer /\ probes[i].sent = 1
        /\ probes[i].database.status = "timeout"

\* getLeaderboard answered 200, with no difficulty filter and a limit that
\* covers every stored completion.
FullLeaderboardAnswered ==
    /\ last.kind = "callback" /\ last.op = "getLeaderboard" /\ last.status = 200
    /\ Falsy(last.body.args.difficulty)
    /\ LimitOf(last.body.args.limit) >= Len(scores)

\* C7: a getLeaderboard answer with no difficulty filter and a sufficient
\* limit holds every completion whose submitCompletion succeeded exactly
\* once, and its rows are in non-decreasing completion_time order.
C7_SubmittedOnLeaderboard ==
    FullLeaderboardAnswered =>
        LET rows == last.body.rows
        IN  /\ \A id \in acked :
                 Cardinality({k \in 1..Len(rows) : rows[k].id = id}) = 1
            /\ \A k \in 1..(Len(rows) - 1) :
                 rows[k].completion_time.n <= rows[k + 1].completion_time.n

\* The request body a submit handler worked on in the step just taken.
PayloadOf(l) == IF l.status = 400 THEN l.req ELSE l.body.args

\* A value that is absent, empty or zero.
Absent(v) == v \in {Undefined, Null, Num(0), Str(<<>>)}

\* The required fields of a Completion other than accuracy.
NineFields ==
    {"sessionId", "name", "email", "completionTime", "timeString", "difficulty",
     "moveCount", "completedAt", "resultsCode"}

\* The fields the Completion validator counts as missing.
LackingFields(p) ==
    {f \in NineFields : Absent(p[f])}
    \cup (IF p.accuracy = Undefined THEN {"accuracy"} ELSE {})

\* A text without whitespace or '@', at least one character long.
PlainText(cs) == Len(cs) > 0 /\ \A k \in 1..Len(cs) : cs[k] \notin {" ", "@"}

\* local@domain.tld
WellFormedEmail(v) ==
    /\ v.t = "string"
    /\ \E a \in 1..Len(v.s), d \in 1..Len(v.s) :
          /\ a < d
          /\ v.s[a] = "@" /\ v.s[d] = "."
          /\ PlainText(SubSeq(v.s, 1, a - 1))
          /\ PlainText(SubSeq(v.s, a + 1, d - 1))
          /\ PlainText(SubSeq(v.s, d + 1, Len(v.s)))

AllTenFields ==
    <<"sessionId", "name", "email", "completionTime", "timeString",
      "difficulty", "moveCount", "accuracy", "completedAt", "resultsCode">>

\* submitCompletion's handler ran in this step, in state Ready.
CompletionValidated ==
    HandlerStep /\ last'.op = "submitCompletion" /\ IsReady

QuizInvalid(p) ==
    \/ \E f \in {"sessionId", "participantName", "participantEmail",
                 "participantMobile", "submittedAt"} : Absent(p[f])
    \/ ~WellFormedEmail(p.participantEmail)

\* A Completion payload the validator must refuse.
CompletionInvalid(p) == LackingFields(p) # {} \/ ~WellFormedEmail(p.email)

\* C9: a submitCompletion or submitQuizAnswers call whose payload fails
\* validation is answered 400, hands no statement to the store, and leaves
\* both tables as they were.
C9_InvalidNotWritten ==
    [][(/\ HandlerStep /\ IsReady
        /\ last'.op \in {"submitCompletion", "submitQuizAnswers"}
        /\ IF last'.op = "submitCompletion"
           THEN CompletionInvalid(PayloadOf(last'))
           ELSE QuizInvalid(PayloadOf(last')))
          => /\ last'.status = 400
             /\ inflight' = inflight
             /\ UNCHANGED storeVars]_vars

\* C9 witness: a quiz submission with a malformed email was refused while
\* a completion is stored.
C9_Witness ==
    /\ last.kind = "handler" /\ last.op = "submitQuizAnswers" /\ last.status = 400
    /\ last.body.error = "Invalid email format"
    /\ Len(scores) > 0

\* C10: the Completion validator refuses a payload exactly when one of the
\* nine fields is absent, empty or zero, or accuracy is undefined, or the
\* email is malformed; a zero duration, difficulty or move count is refused
\* as missing, and accuracy 0 alone is not.
C10_RejectsIff ==
    [][CompletionValidated =>
         LET p == PayloadOf(last')
         IN  /\ last'.status = 400 <=> CompletionInvalid(p)
             /\ (\E f \in NumberFields : p[f] = Num(0))
                   => last'.body.error = "Missing required fields"
             /\ (p.accuracy = Num(0) /\ LackingFields(p) = {}
                 /\ WellFormedEmail(p.email))
                   => last'.status = 0 /\ inflight' # inflight]_vars

\* C10 witness: a payload with accuracy 0 passed validation and its row
\* was stored.
C10_Witness ==
    /\ last.kind = "callback" /\ last.op = "submitCompletion" /\ last.status = 200
    /\ \E k \in 1..Len(scores) : scores[k].accuracy = Num(0)

\* The columns of scores that hold the ten required fields.
RequiredColumns ==
    {"session_id", "name", "email", "completion_time", "time_string",
     "difficulty", "move_count", "accuracy", "completed_at", "results_code"}

SelectedCount(difficulty) ==
    Cardinality({k \in 1..Len(scores) : MatchesDifficulty(scores[k], difficulty)})

\* The completion ids of the rows a joined-leaderboard answer carries.
JoinedIds(body) ==
    [k \in 1..Len(body.rows) |->
        IF body.args.format = "raw" THEN body.rows[k].id
        ELSE body.rows[k].puzzle_game.id]

\* No value occurs twice in the sequence.
Distinct(seq) == \A i, j \in 1..Len(seq) : seq[i] = seq[j] => i = j

\* C12: a joined leaderboard answer and a combined export carry one row per
\* selected completion, however many quiz submissions share its session
\* identifier, and the limit counts completions.
C12_OneRowPerCompletion ==
    /\ (last.kind = "callback" /\ last.op = "getJoinedLeaderboard"
        /\ last.status = 200)
          => /\ Distinct(JoinedIds(last.body))
             /\ Len(last.body.rows)
                  = Min(LimitOf(last.body.args.limit),
                        SelectedCount(last.body.args.difficulty))
    /\ (last.kind = "callback" /\ last.op = "exportCombined" /\ last.status = 200)
          => /\ Distinct([k \in 1..Len(last.body.rows) |-> last.body.rows[k].score_id])
             /\ Len(last.body.rows) = Len(scores)

\* A quiz submission with this session identifier is stored.
HasQuiz(sid) == \E k \in 1..Len(quiz_answers) : quiz_answers[k].session_id = sid

\* The quiz columns of a raw joined row are all present.
RawQuizPresent(row) ==
    /\ row.quiz_name # Null /\ row.quiz_email # Null
    /\ row.participant_mobile # Null /\ row.quiz_submitted_at # Null

\* The quiz columns of a raw joined row are all null.
RawQuizNull(row) ==
    /\ row.quiz_name = Null /\ row.quiz_email = Null
    /\ row.participant_mobile = Null /\ row.quiz_submitted_at = Null
    /\ \A f \in AnswerColumns : row.answers[f] = Null

\* C13: in a joined leaderboard answer, raw or formatted, the row of a
\* completion whose session identifier a quiz submission shares has
\* non-null quiz fields, the row of a completion without one has quiz
\* fields that are null, and no completion within the limit is left out for
\* lack of a quiz submission.
C13_QuizAttachedOrNull ==
    (last.kind = "callback" /\ last.op = "getJoinedLeaderboard" /\ last.status = 200)
       => LET rows == last.body.rows
              args == last.body.args
          IN  /\ Len(rows) >= Min(LimitOf(args.limit), SelectedCount(args.difficulty))
              /\ \A k \in 1..Len(rows) :
                   IF args.format = "raw"
                   THEN IF HasQuiz(rows[k].session_id)
                        THEN RawQuizPresent(rows[k])
                        ELSE RawQuizNull(rows[k])
                   ELSE IF HasQuiz(rows[k].puzzle_game.session_id)
                        THEN /\ "participant_info" \in DOMAIN rows[k].quiz_answers
                             /\ rows[k].quiz_answers.participant_info.name # Null
                        ELSE rows[k].quiz_answers = Null

\* C13 witness: a formatted answer of two rows, one with a quiz submission
\* attached and one with quiz_answers null.
C13_Witness ==
    /\ last.kind = "callback" /\ last.op = "getJoinedLeaderboard"
    /\ last.status = 200 /\ last.body.args.format # "raw"
    /\ Len(last.body.rows) = 2
    /\ \E k \in 1..2 : last.body.rows[k].quiz_answers = Null
    /\ \E k \in 1..2 : HasQuiz(last.body.rows[k].puzzle_game.session_id)

\* The stored quiz submissions that share the email or the name.
QuizCollisions(email, name) ==
    {k \in 1..Len(quiz_answers) :
        \/ quiz_answers[k].participant_email = email
        \/ quiz_answers[k].participant_name = name}

\* C14: checkDuplicateQuiz answers with existingCount the number of stored
\* quiz submissions whose email equals the given email or whose name equals
\* the given name, and isDuplicate true exactly when there is one; the
\* scores table has no part in the answer.
C14_DuplicateIffEmailOrName ==
    (last.kind = "callback" /\ last.op = "checkDuplicateQuiz" /\ last.status = 200)
       => LET hits == QuizCollisions(last.body.args.email, last.body.args.name)
          IN  /\ last.body.existingCount = Cardinality(hits)
              /\ last.body.isDuplicate <=> hits # {}

\* C14 witness: no duplicate was reported for an email and a name that a
\* stored completion carries, with a quiz submission of another
\* participant stored.
C14_Witness ==
    /\ last.kind = "callback" /\ last.op = "checkDuplicateQuiz" /\ last.status = 200
    /\ ~last.body.isDuplicate
    /\ Len(quiz_answers) > 0
    /\ \E k \in 1..Len(scores) :
          /\ scores[k].email = last.body.args.email
          /\ scores[k].name = last.body.args.name

\* No two stored quiz submissions share an email or a name.
NoDuplicateQuiz ==
    \A i, j \in 1..Len(quiz_answers) :
        i # j => /\ quiz_answers[i].participant_email # quiz_answers[j].participant_email
                 /\ quiz_answers[i].participant_name # quiz_answers[j].participant_name

\* C15 as stated: when every caller submits only after checkDuplicateQuiz
\* answered isDuplicate false, no two stored quiz submissions share an email
\* or a name, however the callers' requests interleave.
C15_CheckedCallersNeverCollide == NoDuplicateQuiz

\* C15 amended: the same holds when no caller started its check while
\* another caller was between its check and the end of its submit.
C15_SerialCallersNeverCollide ==
    (\A c \in DOMAIN callers : callers[c].alone) => NoDuplicateQuiz

\* C15 witness: two callers ran one after the other and both submissions
\* are stored.
C15_Witness ==
    /\ \A c \in DOMAIN callers : callers[c].alone
    /\ Cardinality({c \in DOMAIN callers : callers[c].pc = "done"}) >= 2
    /\ Len(quiz_answers) = 2

\* The callback of a submit statement ran in this step, for slot i.
SubmitCallbackStep(i) ==
    /\ inflight[i].op \in {"submitCompletion", "submitQuizAnswers"}
    /\ inflight'[i] = NoStmt

\* The table grew by exactly one row, at its end.
GrewByOne(before, after) ==
    Len(after) = Len(before) + 1 /\ SubSeq(after, 1, Len(before)) = before

\* C16: neither submit operation looks for existing records: in state Ready
\* a valid payload is always handed to the store, and unless the store
\* reports an error of its own (or the payload's accuracy is null) its
\* callback adds the payload as a new row, whatever rows with the same
\* email, name or session identifier are stored.
C16_SubmitIgnoresDuplicates ==
    [][/\ (/\ HandlerStep /\ IsReady
           /\ last'.op \in {"submitCompletion", "submitQuizAnswers"}
           /\ IF last'.op = "submitCompletion"
              THEN ~CompletionInvalid(PayloadOf(last'))
              ELSE ~QuizInvalid(PayloadOf(last')))
             => last'.status = 0 /\ inflight' # inflight
       /\ \A i \in DOMAIN inflight :
            SubmitCallbackStep(i) =>
              LET p == inflight[i].args
                  refused == /\ last'.status = 500
                             /\ UNCHANGED storeVars
                             /\ \/ last'.body.details \in StoreErrors
                                \/ p.sessionId # Undefined /\ "accuracy" \in DOMAIN p
                                   /\ p.accuracy = Null
              IN  IF inflight[i].op = "submitCompletion"
                  THEN \/ refused
                       \/ /\ last'.status = 200
                          /\ GrewByOne(scores, scores')
                          /\ scores'[Len(scores')].id \notin
                                {scores[k].id : k \in 1..Len(scores)}
                          /\ scores'[Len(scores')].email = p.email
                          /\ scores'[Len(scores')].name = p.name
                          /\ scores'[Len(scores')].session_id = p.sessionId
                  ELSE \/ last'.status = 500 /\ UNCHANGED storeVars
                          /\ last'.body.details \in StoreErrors
                       \/ /\ last'.status = 200
                          /\ GrewByOne(quiz_answers, quiz_answers')
                          /\ quiz_answers'[Len(quiz_answers')].id \notin
                                {quiz_answers[k].id : k \in 1..Len(quiz_answers)}
                          /\ quiz_answers'[Len(quiz_answers')].participant_email
                                = p.participantEmail
                          /\ quiz_answers'[Len(quiz_answers')].participant_name
                                = p.participantName
                          /\ quiz_answers'[Len(quiz_answers')].session_id = p.sessionId
      ]_vars

\* C16 witness: two completions with the same email, name and session
\* identifier and two quiz submissions with the same email, name and
\* session identifier are stored.
C16_Witness ==
    /\ Len(scores) = 2 /\ Len(quiz_answers) = 2
    /\ scores[1].email = scores[2].email /\ scores[1].name = scores[2].name
    /\ scores[1].session_id = scores[2].session_id
    /\ quiz_answers[1].participant_email = quiz_answers[2].participant_email
    /\ quiz_answers[1].participant_name = quiz_answers[2].participant_name
    /\ quiz_answers[1].session_id = quiz_answers[2].session_id


\* The step answered a protected route with the Access Guard's rejection and
\* did nothing else: no readiness check, no statement, no change of the store.
GuardRejection ==
    /\ last'.kind = "guard" /\ last'.status = 401
    /\ last'.body.error \in {"Authentication required", "Invalid authentication"}
    /\ UNCHANGED <<initVars, lifetime, storeVars, inflight, probes, acked, callers>>

\* No carrier of the request holds the secret.
NoneOrWrong(cred) ==
    /\ cred.authorization # Str(BearerPrefix \o ADMIN_TOKEN)
    /\ cred.xAdminToken # Str(ADMIN_TOKEN)
    /\ cred.token # Str(ADMIN_TOKEN)

\* C17: a request to a protected route that carries no credential or only
\* wrong credentials is answered by the Access Guard's rejection, in every
\* readiness state, and the wrapped operation does not run.
C17_RejectedNeverRuns ==
    [][\A cred \in Credentials :
          (NoneOrWrong(cred) /\ GuardedRequest(cred)) => GuardRejection]_vars

\* Every request to a protected route is answered under the name of its
\* operation.
RequestNamesOperation ==
    [][\A cred \in Credentials :
          GuardedRequest(cred) => RequestOf(last'.op, cred)]_vars

\* A rejection in state Ready with a completion stored.
RejectedWhenReady == last.kind = "guard" /\ IsReady /\ Len(scores) > 0

\* A rejection while initialization is going on.
RejectedWhenInitializing ==
    last.kind = "guard" /\ ~IsReady /\ ~IsFailed /\ db = "handle"

\* C17 witness: a request without the secret was rejected in state Failed.
C17_Witness ==
    last.kind = "guard" /\ last.status = 401 /\ IsFailed

\* The credential each carrier holds, in priority order: the Authorization
\* header with the Bearer scheme, the X-Admin-Token header, the token query
\* parameter. A carrier with no value or an empty value holds none.
Carriers(cred) ==
    << IF cred.authorization.t = "string"
          /\ StartsWith(cred.authorization.s, BearerPrefix)
       THEN <<SubSeq(cred.authorization.s, Len(BearerPrefix) + 1,
                     Len(cred.authorization.s))>>
       ELSE <<>>,
       IF cred.xAdminToken.t = "string" /\ cred.xAdminToken.s # <<>>
       THEN <<cred.xAdminToken.s>> ELSE <<>>,
       IF cred.token.t = "string" /\ cred.token.s # <<>>
       THEN <<cred.token.s>> ELSE <<>> >>

\* The first carrier present holds the secret.
FirstCarrierIsSecret(cred) ==
    \E k \in 1..3 :
        /\ Carriers(cred)[k] = <<ADMIN_TOKEN>>
        /\ \A j \in 1..(k - 1) : Carriers(cred)[j] = <<>>

\* The secret in exactly one carrier, the other two absent.
SecretAlone ==
    {[NoCredential EXCEPT !.authorization = Str(BearerPrefix \o ADMIN_TOKEN)],
     [NoCredential EXCEPT !.xAdminToken = Str(ADMIN_TOKEN)],
     [NoCredential EXCEPT !.token = Str(ADMIN_TOKEN)]}

\* C18: a request to a protected route reaches the wrapped operation exactly
\* when the first carrier present, in the order Bearer Authorization header,
\* X-Admin-Token header, token query parameter, holds the secret; and a
\* request with the secret in one carrier has the same outcomes whichever of
\* the three carriers it is.
C18_FirstCarrierDecides ==
    [][/\ \A cred \in Credentials :
            RequestOf(last'.op, cred)
              => ((last'.kind # "guard") <=> FirstCarrierIsSecret(cred))
       /\ \A c1, c2 \in SecretAlone :
            RequestOf(last'.op, c1) => RequestOf(last'.op, c2)
      ]_vars

\* C18 witness: the joined leaderboard was answered with a completion, which
\* only an accepted request obtains.
C18_Witness ==
    /\ last.kind = "callback" /\ last.op = "getJoinedLeaderboard"
    /\ last.status = 200 /\ Len(scores) > 0

\* C19: every rejection of the Access Guard carries the hint naming the
\* three ways of sending the credential.
C19_RejectionHasHint ==
    last.kind = "guard" => last.body.hint


\* The row is the record the initialization self-test inserts.
IsSelfTestRecord(row) == row = TestRow(row.id)

\* Every row of the table before the step is in the table after it, or is
\* a self-test record removed by the self-test's own delete.
Kept(before, after) ==
    \A k \in 1..Len(before) :
        \/ \E j \in 1..Len(after) : after[j] = before[k]
        \/ initPc = "testDelete" /\ IsSelfTestRecord(before[k])

\* C20: a stored record is never changed or removed by a later step; the one
\* exception is the self-test record, removed by the delete of the
\* initialization self-test.
C20_RecordsImmutable ==
    [][Kept(scores, scores') /\ Kept(quiz_answers, quiz_answers')]_vars


\* Faster first; of two completions with the same duration the one stored
\* first.
ByDurationThenId(r1, r2) ==
    \/ r1.completion_time.n < r2.completion_time.n
    \/ r1.completion_time.n = r2.completion_time.n /\ r1.id <= r2.id

\* The ids of the stored completions of the difficulty, stably sorted by
\* duration.
StableLeaderboardIds(difficulty) ==
    LET selected == SelectSeq(scores, LAMBDA r : MatchesDifficulty(r, difficulty))
        o == CHOOSE p \in Orderings(selected, ByDurationThenId) : TRUE
    IN  [k \in 1..Len(selected) |-> selected[o[k]].id]

\* C21: a leaderboard answer is the stable sort by duration of the stored
\* completions, cut at the limit; in a joined leaderboard answer completions
\* of equal duration come in the order of their ids.
C21_TiesByInsertionOrder ==
    /\ (last.kind = "callback" /\ last.op = "getLeaderboard" /\ last.status = 200)
          => [k \in 1..Len(last.body.rows) |-> last.body.rows[k].id]
               = Take(StableLeaderboardIds(last.body.args.difficulty),
                      LimitOf(last.body.args.limit))
    /\ (last.kind = "callback" /\ last.op = "getJoinedLeaderboard"
        /\ last.status = 200 /\ last.body.args.format = "raw")
          => \A a, b \in 1..Len(last.body.rows) :
                a < b => ByDurationThenId(last.body.rows[a], last.body.rows[b])


\* A text value as a CSV field: in double quotes, each double quote inside
\* doubled; an absent value is the empty quoted field.
TextCell(v) ==
    <<"\"">> \o EscapeQuotes(IF IsNullish(v) THEN <<>> ELSE v.s) \o <<"\"">>

\* The columns of the combined export that hold numbers.
NumericColumns ==
    {c \in 1..Len(combinedHeaders) :
        combinedHeaders[c] \in {"Score ID", "Completion Time (ms)", "Difficulty",
                                "Move Count", "Accuracy", "Quiz ID"}}

QuizCsvAnswered ==
    last.kind = "callback" /\ last.op = "exportQuizCsv" /\ last.status = 200

QuizXlsxAnswered ==
    last.kind = "callback" /\ last.op = "exportQuizXlsx" /\ last.status = 200

CombinedCsvAnswered ==
    /\ last.kind = "callback" /\ last.op = "exportCombined" /\ last.status = 200
    /\ last.body.contentType = "text/csv"

CombinedXlsxAnswered ==
    /\ last.kind = "callback" /\ last.op = "exportCombined" /\ last.status = 200
    /\ last.body.contentType = "xlsx"

\* C22: in both CSV exports every line has one field per header label, in
\* the order of the labels, and every text field is the value in double
\* quotes with inner double quotes doubled, "" for an absent value.
C22_TextFieldsEscaped ==
    /\ QuizCsvAnswered
          => \A k \in 1..Len(last.body.lines) :
                \E j \in 1..Len(quiz_answers) :
                   LET line == last.body.lines[k]
                       values == quizExcelRow(quiz_answers[j])
                   IN  /\ Len(line) = Len(last.body.header)
                       /\ line[1] = ToStringChars(values[1])
                       /\ \A c \in 2..Len(line) : line[c] = TextCell(values[c])
    /\ CombinedCsvAnswered
          => \A k \in 1..Len(last.body.lines) :
                LET line == last.body.lines[k]
                    values == combinedExcelRow(last.body.rows[k])
                IN  /\ Len(line) = Len(last.body.header)
                    /\ \A c \in (1..Len(line)) \ NumericColumns :
                          line[c] = TextCell(values[c])

\* C23: an export of no records answers with the header row alone: the CSV
\* text is the line of labels, the sheet has the row of labels and no other.
C23_EmptyExportHeaderOnly ==
    /\ (QuizCsvAnswered /\ quiz_answers = <<>>)
          => last.body.header = quizHeaders /\ last.body.lines = <<>>
    /\ (CombinedCsvAnswered /\ scores = <<>>)
          => last.body.header = combinedHeaders /\ last.body.lines = <<>>
    /\ (QuizXlsxAnswered /\ quiz_answers = <<>>)
          => last.body.sheet.header = quizHeaders /\ last.body.sheet.rows = <<>>
    /\ (CombinedXlsxAnswered /\ scores = <<>>)
          => last.body.sheet.header = combinedHeaders /\ last.body.sheet.rows = <<>>

\* The text of a quoted CSV field, or the field itself when it has no quotes
\* around it.
Unquoted(cell) ==
    IF Len(cell) >= 2 /\ Head(cell) = "\"" /\ cell[Len(cell)] = "\""
    THEN SubSeq(cell, 2, Len(cell) - 1)
    ELSE cell

\* The field shows the value: nothing for an absent value, the digits of a
\* number, the text of a string, with or without its quotes doubled.
Shows(cell, v) ==
    IF IsNullish(v) THEN Unquoted(cell) = <<>>
    ELSE IF v.t = "number" THEN cell = ToStringChars(v)
    ELSE Unquoted(cell) \in {v.s, EscapeQuotes(v.s)}

\* C29: every field of every line of the combined CSV export shows the
\* value the spreadsheet export has in the same column of the same row.
C29_CsvAndSheetAgree ==
    CombinedCsvAnswered
      => \A k \in 1..Len(last.body.lines) :
            \A c \in 1..Len(last.body.lines[k]) :
               Shows(last.body.lines[k][c], combinedExcelRow(last.body.rows[k])[c])


\* C24: a 500 answer given from the callback of a store call carries the
\* message of the store's error.
C24_StoreErrorCarriesMessage ==
    (last.kind = "callback" /\ last.op \in GatedOps /\ last.status = 500)
      => /\ "details" \in DOMAIN last.body
         /\ last.body.details \in StoreErrors \cup {"SQLITE_CONSTRAINT"}


\* The readiness state is Initializing: not Ready and no error recorded.
IsInitializing == ~IsReady /\ ~IsFailed

\* C25 as stated: no handler runs while the readiness state is Initializing.
C25_NoHandlerWhileInitializing ==
    [][HandlerStep => ~IsInitializing]_vars

\* C25: db, dbReady and dbError are written only by the steps of the one
\* initialization; requests are served while it is still going on, and a
\* handler that then reads the state Initializing refuses the operation with
\* 503 and leaves the state, the store and the statements in flight alone.
C25_WritesOnlyByInitialization ==
    [][/\ (initVars' # initVars)
            => /\ initPc # "done" /\ last' = last
               /\ inflight' = inflight
               /\ lifetime' = lifetime
       /\ (HandlerStep /\ IsInitializing)
            => /\ last'.status = 503
               /\ last'.body.error = "Database not available"
               /\ UNCHANGED <<initVars, storeVars, inflight>>
      ]_vars

\* C25 witness: a submission was refused while initialization had opened the
\* store and not yet finished.
C25_Witness ==
    /\ last.kind = "handler" /\ last.status = 503
    /\ IsInitializing /\ db = "handle" /\ initPc \notin {"start", "done"}


\* C26: the stages come in the order Access Guard, validation, readiness
\* check: a submission with an invalid payload made while the state is not
\* Ready is answered 400 by the validation, and a request to a protected
\* route without the secret is answered by the Access Guard in any state.
C26_StagesInOrder ==
    [][/\ \A p \in Completions :
            (CompletionInvalid(p) /\ ~IsReady /\ SubmitCompletion(p))
               => last'.status = 400
       /\ \A p \in Quizzes :
            (QuizInvalid(p) /\ ~IsReady /\ SubmitQuizAnswers(p))
               => last'.status = 400
       /\ \A cred \in Credentials :
            (NoneOrWrong(cred) /\ GuardedRequest(cred)) => last'.kind = "guard"
      ]_vars


\* The operations of server.js that work on the store.
ServerJsOps == {"saveScore", "leaderboard", "exportScores", "stats"}

\* C27: in server.js, once the open callback has reported an error, a
\* handler of a store-backed route answers 503 'Database not available',
\* hands no statement to the store and does not throw.
C27_DisabledAfterOpenError ==
    [][(HandlerStep /\ last'.op \in ServerJsOps /\ initPc = "failed")
         => /\ last'.status = 503
            /\ last'.body.error = "Database not available"
            /\ inflight' = inflight]_vars


\* C28: while the readiness state is Ready the scores table holds no
\* self-test record.
C28_NoSelfTestRecordWhenReady ==
    IsReady => \A k \in 1..Len(scores) : ~IsSelfTestRecord(scores[k])


\* C30: the pagination of a page of the formatted quiz view describes the
\* table as it was when the page was read. A page that came back shorter
\* than its limit reached the end of the matching records, so total is
\* offset + returned and has_more is false, whatever was stored before the
\* count query ran.
C30_PaginationMatchesPage ==
    (/\ last.kind = "callback" /\ last.op = "getQuizFormatted" /\ last.status = 200
     /\ "total" \in DOMAIN last.body.pagination
     /\ last.body.pagination.returned < last.body.pagination.limit
     /\ \/ last.body.pagination.returned > 0
        \/ last.body.pagination.offset = 0)
      => /\ last.body.pagination.total
              = last.body.pagination.offset + last.body.pagination.returned
         /\ ~last.body.pagination.has_more

====
